---- MODULE Spec2Model ----
(***************************************************************************)
(* The chunked file transfer engine of synapseclient/client.py: the        *)
(* upload protocol of Synapse._chunkedUploadFile (token request, per-chunk *)
(* signed-URL request and PUT, completion daemon start, status polling,    *)
(* file handle fetch) and the retry policies wrapped around its remote     *)
(* calls.  One step of the model is one HTTP attempt of the client, or one *)
(* sleep of the poll loop.                                                 *)
(***************************************************************************)
EXTENDS Integers, Sequences, FiniteSets, TLC

\* ---------------------------------------------------------------- bounds
\* Files are up to MaxChunks default-sized chunks long (plus one byte).
MaxChunks == 2
\* The completion daemon reports PROCESSING at most MaxPolls times.
MaxPolls == 3
\* A cache entry is resolved at most MaxResolves times in a row.
MaxResolves == 2
\* A downloaded body is written in MaxBlocks blocks of FILE_BUFFER_SIZE.
MaxBlocks == 2
\* setAnnotations is called at most MaxSetCalls times.
MaxSetCalls == 2
\* An evaluation has at most MaxResults submissions.
MaxResults == 41
\* A client makes at most MaxSessionCalls calls of login and logout.
MaxSessionCalls == 3
\* The same entity is stored at most MaxStores times.
MaxStores == 2

\* ------------------------------------------------------ program constants
\* synapseclient.utils.MB, imported by client.py
MB == 1048576
\* CHUNK_SIZE = 5*MB
CHUNK_SIZE == 5 * MB
\* the literal 5*MB of the chunksize check of _chunkedUploadFile
MinChunkSize == 5 * MB
\* CHUNK_UPLOAD_POLL_INTERVAL = 1 # second
CHUNK_UPLOAD_POLL_INTERVAL == 1

\* The text S3 answers a PUT with when it fails transiently.
S3InternalError == "We encountered an internal error. Please try again."

\* ------------------------------------------------------------ retry policy
\* A mutation of the standard policy with no back off (wait stays constant).
STANDARD_RETRY_REQUEST_NoBackOff ==
    [ retry_status_codes |-> {502, 503},
      retry_errors       |-> {},
      retry_exceptions   |-> {"Timeout", "timeout"},
      retries |-> 3, wait |-> 1, back_off |-> 1 ]

\* A mutation of the standard policy that allows one retry more.
STANDARD_RETRY_REQUEST_MoreRetries ==
    [ retry_status_codes |-> {502, 503},
      retry_errors       |-> {},
      retry_exceptions   |-> {"Timeout", "timeout"},
      retries |-> 4, wait |-> 1, back_off |-> 2 ]

\* The standard retry policy applied to restGET, restPOST, restPUT, restDELETE.
STANDARD_RETRY_REQUEST ==
    [ retry_status_codes |-> {502, 503},
      retry_errors       |-> {},
      retry_exceptions   |-> {"Timeout", "timeout"},
      retries |-> 3, wait |-> 1, back_off |-> 2 ]

\* A mutation of the chunk PUT policy that also retries a 403.
S3PutRetryRequest_Retry403 ==
    [ retry_status_codes |-> {403, 502, 503},
      retry_errors       |-> {S3InternalError},
      retry_exceptions   |-> {},
      retries |-> 4, wait |-> 1, back_off |-> 2 ]

\* A mutation of the chunk PUT policy that triples the wait instead of
\* doubling it.
S3PutRetryRequest_Tripling ==
    [ retry_status_codes |-> {502, 503},
      retry_errors       |-> {S3InternalError},
      retry_exceptions   |-> {},
      retries |-> 4, wait |-> 1, back_off |-> 3 ]

\* The retry policy of the chunk PUT (with_retry of _chunkedUploadFile).  The
\* call names no retry_exceptions: the policy retries no exception kind.
S3PutRetryRequest ==
    [ retry_status_codes |-> {502, 503},
      retry_errors       |-> {S3InternalError},
      retry_exceptions   |-> {},
      retries |-> 4, wait |-> 1, back_off |-> 2 ]

\* ------------------------------------------------------------ environment
\* What one HTTP attempt can end in: a response (status, the error texts its
\* body contains) or an exception of the requests library (exc # "").  503
\* stands for both retried statuses, 403 for the statuses never retried.
Resp(status, exc, body) == [status |-> status, exc |-> exc, body |-> body]

Responses ==
    { Resp(200, "", {}),
      Resp(503, "", {}),
      Resp(500, "", {S3InternalError}),
      Resp(403, "", {"Forbidden"}),
      Resp(0, "Timeout", {}),
      Resp(0, "ConnectionError", {}) }

\* The local file system: a path is absent or holds a file of some size.
Absent == 0 - 1
Paths == {"data.bin", "gone.bin"}
NoPath == "None"
FileSizes ==
    {0} \cup { k * CHUNK_SIZE + d : k \in 1..MaxChunks, d \in {0 - 1, 0, 1} }
ChunkSizes == {1 * MB, CHUNK_SIZE, 6 * MB}

\* What the file service hands out.
Tokens == {"token-1", "token-2"}
HandleIds == {"fh-7", "fh-8"}
ErrorMessages == {"disk full", "md5 mismatch"}
NoStatus == [state |-> "NONE", fileHandleId |-> "", errorMessage |-> ""]
NoError == [type |-> "", message |-> ""]
NoHandle == [id |-> "", concreteType |-> ""]
NoChunk == [off |-> 0, len |-> 0]

VARIABLES
    fs,           \* path -> size of the file there, or Absent
    pc,           \* where _chunkedUploadFile stands
    filepath,     \* its argument filepath
    chunksize,    \* its argument chunksize
    i,            \* its chunk counter i
    offset,       \* read position of the open file f
    chunk,        \* the chunk read last: bytes [off, off+len) of the file
    token,        \* the upload token received
    url,          \* the signed URL received for chunk i: <<token, chunkNumber>>
    status,       \* the completion status received last
    fileHandle,   \* the file handle returned
    error,        \* the exception raised
    calls,        \* the remote calls issued, in order
    inCall,       \* TRUE inside a retry wrapper between two attempts
    outcomes,     \* what the attempts of the current/last remote call ended in
    retrySleeps,  \* the sleeps of the retry wrapper in that call
    wait,         \* the retry wrapper's local wait
    retriesLeft,  \* the retry wrapper's local retries
    pollSleeps,   \* the sleeps of the poll loop
    statuses,     \* the states of the completion statuses received
    filename,     \* the argument filename of _uploadToFileHandleService
    synapseStore, \* its argument synapseStore
    cacheDir,     \* the entity's cache directory: name -> exists, content, mtime
    sidecar,      \* its ".md5" file: exists, text (its lines), mtime
    clock,        \* the time of the file system
    remote,       \* the content stored at the location of the entity
    entityMd5,    \* entity.get('md5', '')
    entityType,   \* the entity resolved: Locationable (attached or not) or File
    contentType,  \* entity['contentType']
    archive,      \* the member names of the zip archive stored for the entity
    cpc,          \* where _downloadLocations / _downloadFile stands
    md5str,       \* the variable md5str of _downloadLocations
    dlurl,        \* the variable url of _downloadFile
    body,         \* what response.raw of _downloadFile still has to give
    gets,         \* the GETs of the resolve under way, with their responses
    cur,          \* the resolve under way (or ended last): what it found and did
    resolves,     \* the resolves that ended, in order
    writers,      \* the concurrent calls on one destination file: pc, blocks written
    dest,         \* that file: exists, and its blocks ("data" or a "hole")
    hashed,       \* per call, the blocks md5_for_file was given to read
    annotationsDefault, \* the default value of setAnnotations' annotations
    sent,         \* per setAnnotations call: its arguments, the annotations sent
    client,       \* self.sessionToken, self.headers, self.skip_checks
    config,       \* the authentication section of the configuration file
    loginArgs,    \* the arguments of login, and the configuration it found
    lpc,          \* where login stands
    email,        \* the variable email of login
    password,     \* the variable password of login
    lcalls,       \* the remote calls of login, in order, with their outcomes
    lerror,       \* the exception login raised
    getArgs,      \* the arguments of get: entity, version, downloadFile
    bundle,       \* the entity bundle get received
    gpc,          \* where get stands
    gcalls,       \* the remote calls and downloads of get, in order
    gentity,      \* what get has put into the entity it returns
    total,        \* the number of submissions the evaluation has
    subStatus,    \* the argument status of getSubmissions
    gen,          \* the generator's frame: result_count, offset, max_results, submissions
    spc,          \* where the generator stands
    yielded,      \* the submissions yielded, in order
    uris,         \* the pages requested, in order
    runA,         \* a call of _chunkedUploadFile with verbose and progress off
    runB,         \* the same call, on the same responses, with other verbose and progress
    racers, \* the concurrent calls of _downloadLocations on one cache entry: pc, md5str
    session, \* the login and logout calls made so far: their number, and the call under way
    storeArgs, \* the arguments of store: the entity and the keyword arguments
    properties, \* the variable properties of store
    stpc, \* where store stands
    stcalls, \* the calls store made in the call under way, in order
    stores \* the number of store calls made and of file handles issued

\* The arguments of _uploadToFileHandleService.
svcVars == << filename, synapseStore >>

\* The download cache of _downloadLocations and _downloadFileEntity.
cacheVars == << cacheDir, sidecar, clock, remote, entityMd5, entityType,
                contentType, archive, cpc, md5str, dlurl, body, gets, cur,
                resolves >>

uploadVars ==
    << fs, pc, filepath, chunksize, i, offset, chunk, token, url, status,
       fileHandle, error, calls, inCall, outcomes, retrySleeps, wait,
       retriesLeft, pollSleeps, statuses, svcVars >>

\* Two calls at work on the same cached file.
concVars == << writers, dest, hashed >>

\* setAnnotations.
annVars == << annotationsDefault, sent >>

\* login.
loginVars == << client, config, loginArgs, lpc, email, password, lcalls,
                lerror >>

\* get.
getVars == << getArgs, bundle, gpc, gcalls, gentity >>

\* getSubmissions.
subVars == << total, subStatus, gen, spc, yielded, uris >>

\* _chunkedUploadFile with its verbose and progress arguments.
traceVars == << runA, runB >>

\* Concurrent calls of _downloadLocations.
raceVars == << racers >>

\* Sequences of login and logout calls.
sessionVars == << session >>

\* store of a File entity.
storeVars == << storeArgs, properties, stpc, stcalls, stores >>

\* What the upload and the download leave alone.
restVars == << concVars, annVars, loginVars, getVars, subVars, traceVars, raceVars, sessionVars, storeVars >>

\* What each of the other operations leaves alone.
exceptConc == << uploadVars, cacheVars, annVars, loginVars, getVars, subVars, traceVars, raceVars, sessionVars, storeVars >>
exceptAnn == << uploadVars, cacheVars, concVars, loginVars, getVars, subVars, traceVars, raceVars, sessionVars, storeVars >>
exceptLogin == << uploadVars, cacheVars, concVars, annVars, getVars, subVars, traceVars, raceVars, sessionVars, storeVars >>
exceptGet == << uploadVars, cacheVars, concVars, annVars, loginVars, subVars, traceVars, raceVars, sessionVars, storeVars >>
exceptSub == << uploadVars, cacheVars, concVars, annVars, loginVars, getVars, traceVars, raceVars, sessionVars, storeVars >>
exceptTrace == << uploadVars, cacheVars, concVars, annVars, loginVars, getVars, subVars, raceVars, sessionVars, storeVars >>
exceptSession == << uploadVars, cacheVars, concVars, annVars, getVars, subVars, traceVars, raceVars, storeVars >>
exceptStore == << uploadVars, cacheVars, concVars, annVars, loginVars, getVars, subVars, traceVars, raceVars, sessionVars >>
exceptRace == << uploadVars, concVars, annVars, loginVars, getVars, subVars, traceVars,
                sessionVars, storeVars,
                remote, entityMd5, entityType, contentType, archive, cpc,
                md5str, dlurl, body, gets, cur, resolves >>

vars == << uploadVars, cacheVars, restVars >>

\* ------------------------------------------------------------ the call log
\* One entry per remote call issued (not per HTTP attempt); result is what the
\* service finally answered: "pending" while attempts go on, then "ok"/"failed".
Call(op, tok, n, nums, data, id) ==
    [ op |-> op, token |-> tok, chunkNumber |-> n, chunkNumbers |-> nums,
      data |-> data, id |-> id, externalURL |-> "", result |-> "pending" ]

\* ----------------------------------------------------------- RetryRequest
\* An attempt failed: it raised, or answered with a status outside 2xx.
Failure(out) == out.exc # "" \/ out.status \notin 200..299

\* The failure kinds a policy retries: a status of its retry set, an exception
\* kind of its retry set, a response body that contains one of its error texts.
IsRetryable(policy, out) ==
    \/ out.exc = "" /\ out.status \in policy.retry_status_codes
    \/ out.exc # "" /\ out.exc \in policy.retry_exceptions
    \/ \E e \in policy.retry_errors : e \in out.body

\* What the wrapper does after an attempt that ended in out with `left`
\* retries left: sleep and call again, or hand the outcome to the caller.
RetryDecision(policy, out, left) ==
    IF Failure(out) /\ IsRetryable(policy, out) /\ left > 0
    THEN "retry" ELSE "done"

\* The retries the wrapper has left when the next attempt is made.
Left(policy) == IF inCall THEN retriesLeft ELSE policy.retries

\* One attempt of the wrapped call `entry` under `policy`, ending in out.
Attempt(policy, entry, out) ==
    LET log0  == IF inCall THEN calls ELSE Append(calls, entry)
        outs0 == IF inCall THEN outcomes ELSE << >>
        sl0   == IF inCall THEN retrySleeps ELSE << >>
        w0    == IF inCall THEN wait ELSE policy.wait
        r0    == Left(policy)
    IN  /\ outcomes' = Append(outs0, out)
        /\ IF RetryDecision(policy, out, r0) = "retry"
           THEN /\ retrySleeps' = Append(sl0, w0)
                /\ wait' = w0 * policy.back_off
                /\ retriesLeft' = r0 - 1
                /\ inCall' = TRUE
                /\ calls' = log0
           ELSE /\ retrySleeps' = sl0
                /\ wait' = w0
                /\ retriesLeft' = r0
                /\ inCall' = FALSE
                /\ calls' = [log0 EXCEPT ![Len(log0)].result =
                                IF Failure(out) THEN "failed" ELSE "ok"]

\* ------------------------------------------------------- low level REST calls
\* response.raise_for_status() of restGET / restPOST, and the exceptions of
\* requests.get / requests.post themselves.
RestRaises(out) == out.exc # "" \/ out.status >= 400

\* The exception an attempt ending in out surfaces as.
HttpErrorOf(out) ==
    [ type |-> IF out.exc # "" THEN out.exc ELSE "HTTPError", message |-> "" ]

\* ------------------------------------------------------------ utils.chunks
\* The next chunk read from position off of a file of `size` bytes: at most
\* cs bytes, fewer at the end of the file.
ReadChunk_FullOnly(size, off, cs) == [ off |-> off, len |-> cs ]

ReadChunk(size, off, cs) ==
    [ off |-> off, len |-> IF size - off < cs THEN size - off ELSE cs ]

\* The generator is exhausted when a read returns no bytes.
Exhausted(size, off) == off >= size

\* ------------------------------------------------------- _chunkedUploadFile
UploadInit ==
    /\ \E s \in FileSizes :
          fs = [p \in Paths |-> IF p = "data.bin" THEN s ELSE Absent]
    /\ pc = "idle"
    /\ filepath = NoPath
    /\ chunksize = 0
    /\ i = 0
    /\ offset = 0
    /\ chunk = NoChunk
    /\ token = ""
    /\ url = << "", 0 >>
    /\ status = NoStatus
    /\ fileHandle = NoHandle
    /\ error = NoError
    /\ calls = << >>
    /\ inCall = FALSE
    /\ outcomes = << >>
    /\ retrySleeps = << >>
    /\ wait = 0
    /\ retriesLeft = 0
    /\ pollSleeps = << >>
    /\ statuses = << >>
    /\ filename = ""
    /\ synapseStore = "None"

\* No download cache in use.
NoFile == [exists |-> FALSE, content |-> "", mtime |-> 0]
NoSidecar == [exists |-> FALSE, text |-> << >>, mtime |-> 0]
\* The files _downloadLocations and _downloadFile write to in the entity's
\* cache directory: the last component of the location's path, and the last
\* component of ".../entity/<id>/file".
CacheNames == {"data.bin", "file"}

NoResolve ==
    [ fileAt |-> NoFile, sidecarAt |-> NoSidecar, trusted |-> FALSE,
      rehashed |-> FALSE, net |-> 0, result |-> "none", path |-> "",
      dirAt |-> [n \in CacheNames |-> NoFile], error |-> "",
      unpacked |-> {}, files |-> {} ]

CacheIdle ==
    /\ cacheDir = [n \in CacheNames |-> NoFile]
    /\ sidecar = NoSidecar
    /\ clock = 0
    /\ remote = ""
    /\ entityMd5 = ""
    /\ entityType = "none"
    /\ contentType = ""
    /\ archive = {}
    /\ cpc = "idle"
    /\ md5str = ""
    /\ dlurl = ""
    /\ body = ""
    /\ gets = << >>
    /\ cur = NoResolve
    /\ resolves = << >>

\* No concurrent calls under way.
Procs == {1, 2, 3}
ConcIdle ==
    /\ writers = [p \in Procs |-> [pc |-> "idle", off |-> 0]]
    /\ dest = [exists |-> FALSE, blocks |-> << >>]
    /\ hashed = [p \in Procs |-> [done |-> FALSE, blocks |-> << >>]]

\* def setAnnotations(self, entity, annotations={}, **kwargs): the default
\* is one dictionary, made empty when the method is defined.
EmptyDict == [k \in {} |-> 0]
AnnIdle ==
    /\ annotationsDefault = EmptyDict
    /\ sent = << >>

\* A client just constructed: no session, profiling off.
None == "None"
NoConfig == [sessiontoken |-> None, username |-> None, password |-> None]
NoLoginArgs ==
    [ email |-> None, password |-> None, sessionToken |-> None,
      config |-> NoConfig, request_profile |-> "False" ]
LoginIdle ==
    /\ client = [ sessionToken |-> None, headerToken |-> None,
                  request_profile |-> "False", skip_checks |-> FALSE ]
    /\ config = NoConfig
    /\ loginArgs = NoLoginArgs
    /\ lpc = "idle"
    /\ email = None
    /\ password = None
    /\ lcalls = << >>
    /\ lerror = ""

\* No get under way.
NoBundle == [type |-> "", handle |-> ""]
NoGetArgs == [entity |-> "", version |-> 0, downloadFile |-> TRUE]
NoEntity == [path |-> "", externalURL |-> "", synapseStore |-> "None"]
GetIdle ==
    /\ getArgs = NoGetArgs
    /\ bundle = NoBundle
    /\ gpc = "idle"
    /\ gcalls = << >>
    /\ gentity = NoEntity

\* No generator of submissions made.
NoGen == [result_count |-> 0, offset |-> 0, max_results |-> 0,
          submissions |-> << >>]
SubIdle ==
    /\ total = 0
    /\ subStatus = None
    /\ gen = NoGen
    /\ spc = "idle"
    /\ yielded = << >>
    /\ uris = << >>

\* No traced upload made.
NoRun == [pc |-> "none"]
TraceIdle ==
    /\ runA = NoRun
    /\ runB = NoRun

\* No concurrent resolve made.
NoRacer == [pc |-> "none", md5str |-> "None", trusted |-> FALSE, seen |-> ""]
RaceIdle == racers = [p \in Procs |-> NoRacer]

\* No sequence of login and logout calls made.
NoSession == [n |-> 0, op |-> "", local |-> FALSE,
              client |-> [sessionToken |-> None, headerToken |-> None],
              stored |-> None]
SessionIdle == session = NoSession

\* No store made.
NoHandleId == 0
NoStoreArgs == [id |-> None, dataFileHandleId |-> NoHandleId, path |-> "",
                synapseStore |-> "None", createOrUpdate |-> TRUE,
                activity |-> FALSE]
NoProperties == [id |-> None, dataFileHandleId |-> NoHandleId]
StoreIdle ==
    /\ storeArgs = NoStoreArgs
    /\ properties = NoProperties
    /\ stpc = "idle"
    /\ stcalls = << >>
    /\ stores = [n |-> 0, issued |-> 1]

RestIdle == ConcIdle /\ AnnIdle /\ LoginIdle /\ GetIdle /\ SubIdle /\ TraceIdle /\ RaceIdle /\ SessionIdle /\ StoreIdle

Init == UploadInit /\ CacheIdle /\ RestIdle

retryVars == << calls, inCall, outcomes, retrySleeps, wait, retriesLeft >>
progVars == << pc, i, offset, chunk, token, url, status, fileHandle, error,
               pollSleeps, statuses >>

\* if chunksize < 5*MB
ChunksizeTooSmall_Never(cs) == FALSE

ChunksizeTooSmall(cs) == cs < MinChunkSize

\* if filepath is None or not os.path.exists(filepath)
FileNotFound_NoneOnly(fp) == fp = NoPath

FileNotFound(fp) == fp = NoPath \/ fp \notin Paths \/ fs[fp] = Absent

\* raise: the call ends with the exception e.
Raise(e) ==
    /\ pc' = "failed"
    /\ error' = e

\* The head of the chunk loop (for chunk in utils.chunks(f, chunksize); i += 1)
\* run from read position off: the next chunk is read and numbered, or the
\* loop ends and the completion daemon is to be started.
IncrChunk_Skip(n) == n + 2

IncrChunk(n) == n + 1

LoopHead(off) ==
    IF Exhausted(fs[filepath], off)
    THEN /\ pc' = "start_daemon"
         /\ UNCHANGED << i, offset, chunk >>
    ELSE /\ pc' = "chunk_url"
         /\ chunk' = ReadChunk(fs[filepath], off, chunksize)
         /\ offset' = off + chunk'.len
         /\ i' = IncrChunk(i)

\* The entry of _chunkedUploadFile(filepath, chunksize): the precondition
\* checks, up to the first remote call.
EnterChunkedUploadFile(fp, cs) ==
    /\ pc = "idle"
    /\ filepath' = fp
    /\ chunksize' = cs
    /\ IF ChunksizeTooSmall(cs)
       THEN Raise([type |-> "ValueError", message |-> "Minimum chunksize is 5 MB."])
       ELSE IF FileNotFound(fp)
       THEN Raise([type |-> "ValueError", message |-> "File not found"])
       ELSE /\ pc' = "token"
            /\ UNCHANGED error
    /\ i' = 0
    /\ UNCHANGED << fs, offset, chunk, token, url, status, fileHandle,
                    pollSleeps, statuses >>
    /\ UNCHANGED retryVars

\* A call of _chunkedUploadFile(filepath, chunksize) by a user of the client.
ChunkedUploadFile(fp, cs) ==
    /\ EnterChunkedUploadFile(fp, cs)
    /\ UNCHANGED svcVars
    /\ UNCHANGED << cacheVars, restVars >>

\* token = self._createChunkedFileUploadToken(filepath, mimetype)
CreateChunkedFileUploadToken(out, t) ==
    /\ pc = "token"
    /\ Attempt(STANDARD_RETRY_REQUEST, Call("createChunkedFileUploadToken", "", 0, << >>, NoChunk, ""), out)
    /\ IF RetryDecision(STANDARD_RETRY_REQUEST, out, Left(STANDARD_RETRY_REQUEST)) = "retry"
       THEN UNCHANGED progVars
       ELSE IF RestRaises(out)
       THEN /\ Raise(HttpErrorOf(out))
            /\ UNCHANGED << i, offset, chunk, token, url, status, fileHandle,
                            pollSleeps, statuses >>
       ELSE /\ token' = t
            /\ LoopHead(0)
            /\ UNCHANGED << url, status, fileHandle, error, pollSleeps, statuses >>
    /\ UNCHANGED << fs, filepath, chunksize >>
    /\ UNCHANGED svcVars
    /\ UNCHANGED << cacheVars, restVars >>

\* chunkRequest = {'chunkNumber':chunkNumber, 'chunkedFileToken':chunkedFileToken}
chunkRequest_FirstToken(chunkNumber, chunkedFileToken) ==
    Call("createChunkedFileUploadChunkURL", "token-1", chunkNumber, << >>, NoChunk, "")

chunkRequest(chunkNumber, chunkedFileToken) ==
    Call("createChunkedFileUploadChunkURL", chunkedFileToken, chunkNumber, << >>, NoChunk, "")

\* url = self._createChunkedFileUploadChunkURL(i, token)
CreateChunkedFileUploadChunkURL(out) ==
    /\ pc = "chunk_url"
    /\ Attempt(STANDARD_RETRY_REQUEST, chunkRequest(i, token), out)
    /\ IF RetryDecision(STANDARD_RETRY_REQUEST, out, Left(STANDARD_RETRY_REQUEST)) = "retry"
       THEN UNCHANGED progVars
       ELSE IF RestRaises(out)
       THEN /\ Raise(HttpErrorOf(out))
            /\ UNCHANGED << i, offset, chunk, token, url, status, fileHandle,
                            pollSleeps, statuses >>
       ELSE /\ url' = << token, i >>
            /\ pc' = "chunk_put"
            /\ UNCHANGED << i, offset, chunk, token, status, fileHandle, error,
                            pollSleeps, statuses >>
    /\ UNCHANGED << fs, filepath, chunksize >>
    /\ UNCHANGED svcVars
    /\ UNCHANGED << cacheVars, restVars >>

\* response.raise_for_status() after the PUT, and the exceptions of
\* requests.put that the wrapper lets through.
PutRaises_Never(out) == FALSE

PutRaises(out) == out.exc # "" \/ out.status >= 400

\* response = with_retry(requests.put)(url, data=chunk, headers=headers)
PutChunk(out) ==
    /\ pc = "chunk_put"
    /\ Attempt(S3PutRetryRequest, Call("PUT", url[1], url[2], << >>, chunk, ""), out)
    /\ IF RetryDecision(S3PutRetryRequest, out, Left(S3PutRetryRequest)) = "retry"
       THEN UNCHANGED progVars
       ELSE IF PutRaises(out)
       THEN /\ Raise(HttpErrorOf(out))
            /\ UNCHANGED << i, offset, chunk, token, url, status, fileHandle,
                            pollSleeps, statuses >>
       ELSE /\ LoopHead(offset)
            /\ UNCHANGED << token, url, status, fileHandle, error, pollSleeps,
                            statuses >>
    /\ UNCHANGED << fs, filepath, chunksize >>
    /\ UNCHANGED svcVars
    /\ UNCHANGED << cacheVars, restVars >>

\* ------------------------------------------------- the completion daemon
\* The completion statuses the file service can answer with, given the states
\* it answered so far.
DaemonStatuses(seen) ==
    { [state |-> "PROCESSING", fileHandleId |-> "", errorMessage |-> ""] :
          x \in { n \in {1} : Len(SelectSeq(seen, LAMBDA st : st = "PROCESSING")) < MaxPolls } }
    \cup { [state |-> "COMPLETED", fileHandleId |-> h, errorMessage |-> ""] : h \in HandleIds }
    \cup { [state |-> "FAILED", fileHandleId |-> "", errorMessage |-> m] : m \in ErrorMessages }

\* status['fileHandleId'] of a status that has no such key.
Missing == "<missing>"

\* A file service that also answers with a state outside PROCESSING,
\* COMPLETED and FAILED, with or without a fileHandleId.
AnyDaemonStatuses(seen) ==
    DaemonStatuses(seen)
    \cup { [state |-> "CANCELLED", fileHandleId |-> h, errorMessage |-> ""] :
             h \in {Missing, "fh-7"} }

\* chunkNumbers=[a+1 for a in range(i)]
ChunkNumbers_ZeroBased(n) == [a \in 1..n |-> a - 1]

ChunkNumbers(n) == [a \in 1..n |-> a]

\* while (status['state']=='PROCESSING')
KeepPolling_UntilCompleted(st) == st.state # "COMPLETED"

KeepPolling(st) == st.state = "PROCESSING"

\* if status['state']=='FAILED'
DaemonFailed_Never(st) == FALSE

DaemonFailed(st) == st.state = "FAILED"

\* raise Exception(status['errorMessage'])
DaemonError_Generic(st) == [type |-> "Exception", message |-> "upload failed"]

DaemonError(st) == [type |-> "Exception", message |-> st.errorMessage]

\* The code that follows the receipt of a completion status st, up to the
\* next remote call or sleep: the loop test, and after the loop the test for
\* FAILED.
AfterStatus(st) ==
    /\ status' = st
    /\ statuses' = Append(statuses, st.state)
    /\ IF KeepPolling(st)
       THEN /\ pc' = "poll_sleep"
            /\ UNCHANGED error
       ELSE IF DaemonFailed(st)
       THEN Raise(DaemonError(st))
       ELSE IF st.fileHandleId = Missing
       THEN Raise([type |-> "KeyError", message |-> "fileHandleId"])
       ELSE /\ pc' = "get_file_handle"
            /\ UNCHANGED error

\* status = self._startCompleteUploadDaemon(chunkedFileToken=token, chunkNumbers=...)
StartCompleteUploadDaemon(out, st) ==
    /\ pc = "start_daemon"
    /\ Attempt(STANDARD_RETRY_REQUEST, Call("startCompleteUploadDaemon", token, 0, ChunkNumbers(i), NoChunk, ""), out)
    /\ IF RetryDecision(STANDARD_RETRY_REQUEST, out, Left(STANDARD_RETRY_REQUEST)) = "retry"
       THEN UNCHANGED progVars
       ELSE IF RestRaises(out)
       THEN /\ Raise(HttpErrorOf(out))
            /\ UNCHANGED << i, offset, chunk, token, url, status, fileHandle,
                            pollSleeps, statuses >>
       ELSE /\ AfterStatus(st)
            /\ UNCHANGED << i, offset, chunk, token, url, fileHandle, pollSleeps >>
    /\ UNCHANGED << fs, filepath, chunksize >>
    /\ UNCHANGED svcVars
    /\ UNCHANGED << cacheVars, restVars >>

\* time.sleep(CHUNK_UPLOAD_POLL_INTERVAL)
PollSleep ==
    /\ pc = "poll_sleep"
    /\ pollSleeps' = Append(pollSleeps, CHUNK_UPLOAD_POLL_INTERVAL)
    /\ pc' = "poll_status"
    /\ UNCHANGED << fs, filepath, chunksize, i, offset, chunk, token, url,
                    status, fileHandle, error, statuses >>
    /\ UNCHANGED retryVars
    /\ UNCHANGED svcVars
    /\ UNCHANGED << cacheVars, restVars >>

\* status = self._completeUploadDaemonStatus(status)
CompleteUploadDaemonStatus(out, st) ==
    /\ pc = "poll_status"
    /\ Attempt(STANDARD_RETRY_REQUEST, Call("completeUploadDaemonStatus", "", 0, << >>, NoChunk, ""), out)
    /\ IF RetryDecision(STANDARD_RETRY_REQUEST, out, Left(STANDARD_RETRY_REQUEST)) = "retry"
       THEN UNCHANGED progVars
       ELSE IF RestRaises(out)
       THEN /\ Raise(HttpErrorOf(out))
            /\ UNCHANGED << i, offset, chunk, token, url, status, fileHandle,
                            pollSleeps, statuses >>
       ELSE /\ AfterStatus(st)
            /\ UNCHANGED << i, offset, chunk, token, url, fileHandle, pollSleeps >>
    /\ UNCHANGED << fs, filepath, chunksize >>
    /\ UNCHANGED svcVars
    /\ UNCHANGED << cacheVars, restVars >>

\* The file handle the service keeps under an id.
ServerFileHandle(id) ==
    [id |-> id, concreteType |-> "org.sagebionetworks.repo.model.file.S3FileHandle"]

\* fileHandle = self._getFileHandle(status['fileHandleId']); return fileHandle
GetFileHandle(out) ==
    /\ pc = "get_file_handle"
    /\ Attempt(STANDARD_RETRY_REQUEST, Call("getFileHandle", "", 0, << >>, NoChunk, status.fileHandleId), out)
    /\ IF RetryDecision(STANDARD_RETRY_REQUEST, out, Left(STANDARD_RETRY_REQUEST)) = "retry"
       THEN UNCHANGED progVars
       ELSE IF RestRaises(out)
       THEN /\ Raise(HttpErrorOf(out))
            /\ UNCHANGED << i, offset, chunk, token, url, status, fileHandle,
                            pollSleeps, statuses >>
       ELSE /\ fileHandle' = ServerFileHandle(status.fileHandleId)
            /\ pc' = "done"
            /\ UNCHANGED << i, offset, chunk, token, url, status, error,
                            pollSleeps, statuses >>
    /\ UNCHANGED << fs, filepath, chunksize >>
    /\ UNCHANGED svcVars
    /\ UNCHANGED << cacheVars, restVars >>

Next ==
    \/ \E fp \in Paths \cup {NoPath}, cs \in ChunkSizes : ChunkedUploadFile(fp, cs)
    \/ \E out \in Responses, t \in Tokens : CreateChunkedFileUploadToken(out, t)
    \/ \E out \in Responses : CreateChunkedFileUploadChunkURL(out)
    \/ \E out \in Responses : PutChunk(out)
    \/ \E out \in Responses, st \in DaemonStatuses(statuses) : StartCompleteUploadDaemon(out, st)
    \/ PollSleep
    \/ \E out \in Responses, st \in DaemonStatuses(statuses) : CompleteUploadDaemonStatus(out, st)
    \/ \E out \in Responses : GetFileHandle(out)

Spec == Init /\ [][Next]_vars

\* The upload of a file of one chunk against the service of AnyDaemonStatuses.
InitAnyStatus ==
    /\ Init
    /\ fs["data.bin"] = CHUNK_SIZE

NextAnyStatus ==
    \/ \E fp \in Paths \cup {NoPath}, cs \in ChunkSizes : ChunkedUploadFile(fp, cs)
    \/ \E out \in Responses, t \in Tokens : CreateChunkedFileUploadToken(out, t)
    \/ \E out \in Responses : CreateChunkedFileUploadChunkURL(out)
    \/ \E out \in Responses : PutChunk(out)
    \/ \E out \in Responses, st \in AnyDaemonStatuses(statuses) : StartCompleteUploadDaemon(out, st)
    \/ PollSleep
    \/ \E out \in Responses, st \in AnyDaemonStatuses(statuses) : CompleteUploadDaemonStatus(out, st)
    \/ \E out \in Responses : GetFileHandle(out)

SpecAnyStatus == InitAnyStatus /\ [][NextAnyStatus]_vars

\* The upload of a file of two chunks in which no step is put off for ever:
\* every remote call returns, every sleep ends, and the daemon answers
\* PROCESSING at most MaxPolls times (DaemonStatuses).
InitLive ==
    /\ Init
    /\ fs["data.bin"] = CHUNK_SIZE + 1

SpecLive == InitLive /\ [][Next]_vars /\ WF_vars(Next)

TypeOK ==
    /\ pc \in {"idle", "token", "chunk_url", "chunk_put", "start_daemon",
               "poll_sleep", "poll_status", "get_file_handle", "done", "failed"}
    /\ i \in 0..(MaxChunks + 2)
    /\ Len(outcomes) <= 5

\* ------------------------------------------- _uploadToFileHandleService
\* What _uploadToFileHandleService is called with: a URL, a local path or
\* nothing, and synapseStore True, False or None (unset).
Urls == {"http://example.org/data.csv"}
Filenames == Urls \cup Paths \cup {""}
SynapseStores == {"True", "False", "None"}
ExternalFileHandle == "org.sagebionetworks.repo.model.file.ExternalFileHandle"

\* utils.is_url(filename)
IsUrl(name) == name \in Urls

\* utils.as_url(externalURL): a URL as it is, a local path as a file: URL.
AsUrl(name) ==
    CASE name \in Urls -> name
      [] name = "data.bin" -> "file://data.bin"
      [] name = "gone.bin" -> "file://gone.bin"
      [] OTHER -> "file://"

\* elif utils.is_url(filename): return self._addURLtoFileHandleService(filename)
UrlIsLinked_UnlessStored(name, store) == IsUrl(name) /\ store # "True"

UrlIsLinked(name, store) == IsUrl(name)

\* if synapseStore==False
StoreIsFalse_Never(store) == FALSE

StoreIsFalse_Falsy(store) == store \in {"False", "None"}

StoreIsFalse(store) == store = "False"

\* The request body of _addURLtoFileHandleService(externalURL).
ExternalCall(externalURL) ==
    [ Call("externalFileHandle", "", 0, << >>, NoChunk, "")
        EXCEPT !.externalURL = AsUrl(externalURL) ]

\* The entry of _uploadToFileHandleService(filename, synapseStore), up to
\* the first remote call.
UploadToFileHandleService(name, store) ==
    /\ pc = "idle"
    /\ filename' = name
    /\ synapseStore' = store
    /\ IF name = ""
       THEN /\ Raise([type |-> "ValueError", message |-> "No filename given"])
            /\ UNCHANGED << fs, filepath, chunksize, i, offset, chunk, token,
                            url, status, fileHandle, pollSleeps, statuses >>
            /\ UNCHANGED retryVars
       ELSE IF UrlIsLinked(name, store) \/ StoreIsFalse(store)
       THEN /\ pc' = "add_url"
            /\ UNCHANGED << fs, filepath, chunksize, i, offset, chunk, token,
                            url, status, fileHandle, error, pollSleeps, statuses >>
            /\ UNCHANGED retryVars
       ELSE EnterChunkedUploadFile(name, CHUNK_SIZE)
    /\ UNCHANGED << cacheVars, restVars >>

\* return self.restPOST('/externalFileHandle', json.dumps(fileHandle), ...)
AddURLtoFileHandleService(out, h) ==
    /\ pc = "add_url"
    /\ Attempt(STANDARD_RETRY_REQUEST, ExternalCall(filename), out)
    /\ IF RetryDecision(STANDARD_RETRY_REQUEST, out, Left(STANDARD_RETRY_REQUEST)) = "retry"
       THEN UNCHANGED progVars
       ELSE IF RestRaises(out)
       THEN /\ Raise(HttpErrorOf(out))
            /\ UNCHANGED << i, offset, chunk, token, url, status, fileHandle,
                            pollSleeps, statuses >>
       ELSE /\ fileHandle' = [id |-> h, concreteType |-> ExternalFileHandle]
            /\ pc' = "done"
            /\ UNCHANGED << i, offset, chunk, token, url, status, error,
                            pollSleeps, statuses >>
    /\ UNCHANGED << fs, filepath, chunksize >>
    /\ UNCHANGED svcVars
    /\ UNCHANGED << cacheVars, restVars >>

\* The client used through _uploadToFileHandleService.
ResolverNext ==
    \/ \E name \in Filenames, store \in SynapseStores : UploadToFileHandleService(name, store)
    \/ \E out \in Responses, h \in HandleIds : AddURLtoFileHandleService(out, h)
    \/ \E out \in Responses, t \in Tokens : CreateChunkedFileUploadToken(out, t)
    \/ \E out \in Responses : CreateChunkedFileUploadChunkURL(out)
    \/ \E out \in Responses : PutChunk(out)
    \/ \E out \in Responses, st \in DaemonStatuses(statuses) : StartCompleteUploadDaemon(out, st)
    \/ PollSleep
    \/ \E out \in Responses, st \in DaemonStatuses(statuses) : CompleteUploadDaemonStatus(out, st)
    \/ \E out \in Responses : GetFileHandle(out)

SpecResolver == Init /\ [][ResolverNext]_vars

\* --------------------------------------------------------- the download cache
\* What a file can hold, and its digest: utils.md5_for_file(f).hexdigest().
Contents == {"A", "B"}
Md5(content) ==
    CASE content = "A" -> "md5-of-A"
      [] content = "B" -> "md5-of-B"
      [] OTHER -> "md5-of-nothing"

\* filename = os.path.join(self.cacheDir, entity['id'], pathComponents[-1]),
\* and the file there.
CachePath == "cache/syn1/data.bin"
cfile == cacheDir["data.bin"]

EntityTypes == {"locationable", "unattached", "file"}

\* What the location of a Locationable entity holds: a plain file, or a zip
\* archive, whose member names may lead out of the directory it is
\* extracted to.
ContentTypes == {"text/plain", "application/zip"}
Archives == {{"a.txt"}, {"a.txt", "../evil.txt"}}

\* The cache entries a client can have left behind: no file; a file just
\* downloaded; a file hashed after its download; a file downloaded again
\* after it was hashed, at a later time or within the same tick of the file
\* system's clock.  A sidecar younger than its file holds the file's digest;
\* the files of a File entity get no sidecar.
CacheEntries ==
    { << f, sc >> \in
        ( {NoFile} \cup
          { [exists |-> TRUE, content |-> c, mtime |-> 1] : c \in Contents } )
        \X
        ( {NoSidecar} \cup
          { [exists |-> TRUE, text |-> << Md5(c) >>, mtime |-> t] :
              c \in Contents, t \in 0..2 } ) :
        (sc.exists /\ sc.mtime > f.mtime)
            => (f.exists /\ sc.text = << Md5(f.content) >>) }

InitDownload ==
    /\ UploadInit
    /\ RestIdle
    /\ fs["data.bin"] = 0
    /\ \E entry \in CacheEntries :
          /\ cacheDir = [n \in CacheNames |->
                            IF n = "data.bin" THEN entry[1] ELSE NoFile]
          /\ sidecar = entry[2]
    /\ clock = 2
    /\ remote \in Contents
    /\ entityMd5 \in {Md5(remote), ""}
    /\ entityType \in EntityTypes
    /\ entityType = "file" => sidecar = NoSidecar
    /\ \E ct \in ContentTypes :
          /\ contentType = ct
          /\ (entityType # "locationable") => (ct = "text/plain")
    /\ archive \in (IF contentType = "application/zip" THEN Archives ELSE {{}})
    /\ cpc = "idle"
    /\ md5str = ""
    /\ dlurl = ""
    /\ body = ""
    /\ gets = << >>
    /\ cur = NoResolve
    /\ resolves = << >>

entityVars == << remote, entityMd5, entityType, contentType, archive >>

\* os.path.exists(filename + ".md5") and
\* os.path.getmtime(filename + ".md5") > os.path.getmtime(filename)
SidecarIsFresh_OrEqual(sc, f) == sc.exists /\ sc.mtime >= f.mtime

SidecarIsFresh(sc, f) == sc.exists /\ sc.mtime > f.mtime

\* handle.readline().rstrip() of the sidecar
ReadSidecar(text) == IF text = << >> THEN "" ELSE text[1]

\* open(filename + ".md5", "w"); handle.write(md5str)
WriteSidecar_Append(text, digest) == Append(text, digest)

WriteSidecar(text, digest) == << digest >>

\* if md5str != entity.get('md5', '')
Md5Differs_WhenKnown(local, expected) == expected # "" /\ local # expected

Md5Differs(local, expected) == local # expected

\* A write to the file system happens at the clock's time; the clock may
\* have moved on since the last write, or not.
Ticks == {0, 1}

\* The resolve ends: with entity.path set, or with the exception raised.
EndResolve(rec) ==
    /\ cur' = rec
    /\ resolves' = Append(resolves, rec)
    /\ cpc' = "idle"

StartOfResolve ==
    [ fileAt |-> cfile, sidecarAt |-> sidecar, trusted |-> FALSE,
      rehashed |-> FALSE, net |-> 0, result |-> "running", path |-> "",
      dirAt |-> cacheDir, error |-> "", unpacked |-> {}, files |-> {} ]

\* --------------------------------------------------------- _downloadLocations
\* _downloadLocations(entity) up to the first write or download: an entity
\* without locations is returned as it is; a cached file is checked against
\* its sidecar; a missing one is downloaded.
DownloadLocations ==
    /\ cpc = "idle"
    /\ entityType \in {"locationable", "unattached"}
    /\ Len(resolves) < MaxResolves
    /\ gets' = << >>
    /\ IF entityType = "unattached"
       THEN /\ EndResolve([StartOfResolve EXCEPT !.result = "entity"])
            /\ UNCHANGED md5str
       ELSE /\ UNCHANGED resolves
            /\ IF cfile.exists
               THEN IF SidecarIsFresh(sidecar, cfile)
                    THEN /\ md5str' = ReadSidecar(sidecar.text)
                         /\ cur' = [StartOfResolve EXCEPT !.trusted = TRUE]
                         /\ cpc' = IF Md5Differs(md5str', entityMd5)
                                   THEN "download" ELSE "finish"
                    ELSE /\ md5str' = "None"
                         /\ cur' = StartOfResolve
                         /\ cpc' = "rehash"
               ELSE /\ cur' = StartOfResolve
                    /\ cpc' = "download"
                    /\ UNCHANGED md5str
    /\ UNCHANGED << cacheDir, sidecar, clock, entityVars, dlurl, body >>
    /\ UNCHANGED << uploadVars, restVars >>

\* The else branch of the sidecar test: hash the file, write the sidecar,
\* compare with the entity's md5.
Rehash(dt) ==
    /\ cpc = "rehash"
    /\ md5str' = Md5(cfile.content)
    /\ clock' = clock + dt
    /\ sidecar' = [ exists |-> TRUE,
                    text |-> WriteSidecar(sidecar.text, md5str'),
                    mtime |-> clock' ]
    /\ cur' = [cur EXCEPT !.rehashed = TRUE]
    /\ cpc' = IF Md5Differs(md5str', entityMd5) THEN "download" ELSE "finish"
    /\ UNCHANGED << cacheDir, entityVars, dlurl, body, gets, resolves >>
    /\ UNCHANGED << uploadVars, restVars >>

\* utils.download_file(url, filename): one GET of the location; its body
\* replaces the cached file, or the call raises and leaves the file alone.
LocationUrl == "https://s3.example.org/bucket/data.bin"

DownloadLocationFile(ok, dt) ==
    /\ cpc = "download"
    /\ gets' = Append(gets, [url |-> LocationUrl,
                             status |-> IF ok THEN 200 ELSE 404, exc |-> ""])
    /\ IF ok
       THEN /\ clock' = clock + dt
            /\ cacheDir' = [cacheDir EXCEPT !["data.bin"] =
                   [exists |-> TRUE, content |-> remote, mtime |-> clock']]
            /\ cur' = [cur EXCEPT !.net = @ + 1]
            /\ cpc' = "finish"
            /\ UNCHANGED resolves
       ELSE /\ dt = 0
            /\ EndResolve([cur EXCEPT !.net = @ + 1, !.result = "error",
                                      !.error = "HTTPError"])
            /\ UNCHANGED << cacheDir, clock >>
    /\ UNCHANGED << sidecar, entityVars, md5str, dlurl, body >>
    /\ UNCHANGED << uploadVars, restVars >>

\* filepath = os.path.join(os.path.dirname(filename),
\*                         os.path.basename(filename) + '_unpacked')
UnpackDir == "cache/syn1/data.bin_unpacked"

\* Where z.extractall(filepath) writes a member.  The code passes the member
\* names on as they are; a zipfile library that strips ".." components
\* writes the member inside filepath under another name, one that does not
\* writes it where the name leads.
ExtractTo(name, sanitises) ==
    CASE name = "a.txt" -> "cache/syn1/data.bin_unpacked/a.txt"
      [] name = "../evil.txt" ->
            IF sanitises THEN "cache/syn1/data.bin_unpacked/evil.txt"
                         ELSE "cache/syn1/evil.txt"
      [] OTHER -> ""

\* entity.path = filename, the unpacking of a zip archive, and the return.
FinishLocations(sanitises) ==
    /\ cpc = "finish"
    /\ IF contentType = "application/zip"
       THEN EndResolve([cur EXCEPT
                !.result = "path", !.path = CachePath,
                !.unpacked = { ExtractTo(n, sanitises) : n \in archive },
                !.files = archive])
       ELSE EndResolve([cur EXCEPT !.result = "path", !.path = CachePath,
                                   !.files = {"data.bin"}])
    /\ UNCHANGED << cacheDir, sidecar, clock, entityVars, md5str, dlurl, body,
                    gets >>
    /\ UNCHANGED << uploadVars, restVars >>

\* ------------------------------------------- _downloadFileEntity, _downloadFile
\* The entity has a versionNumber (1) or none (0).
Versions == {0, 1}
FileEntityUrl(v) ==
    IF v = 0 THEN "repo/entity/syn1/file" ELSE "repo/entity/syn1/version/1/file"

\* Where Synapse redirects a download to: a file URL or a signed S3 URL.
Locations == {"file:///data/local.bin", LocationUrl}
RedirectStatuses_Classic == {301, 302, 303}

RedirectStatuses == {301, 302, 303, 307, 308}

\* url.startswith('file:'), utils.file_url_to_path(url, verify_exists=True)
StartsWithFile(u) == u = "file:///data/local.bin"
FileUrlToPath(u) == IF StartsWithFile(u) THEN "/data/local.bin" ELSE ""

\* What requests.get(url, allow_redirects=False) can end in.
InitialGetResponses ==
    { [status |-> st, exc |-> "", location |-> ""] : st \in {200, 404, 503} }
    \cup { [status |-> st, exc |-> "", location |-> loc] :
              st \in {301, 302, 303, 307, 308}, loc \in Locations }
    \cup { [status |-> 0, exc |-> "ConnectionError", location |-> ""] }

\* What requests.get(url, stream=True) can end in: requests follows the
\* redirects of this one itself.
RedirectGetResponses ==
    { r \in InitialGetResponses : r.location = "" }

\* response.raise_for_status()
RaisesForStatus_ServerOnly(st) == st >= 500

RaisesForStatus(st) == st >= 400

\* url.split('/')[-1] under destDir (the location is no proddata URL).
DestName(u) == IF u = LocationUrl THEN "data.bin" ELSE "file"
DestPath(u) == IF u = LocationUrl THEN CachePath ELSE "cache/syn1/file"

\* _downloadFileEntity(entity): the URL of the entity's file, destDir made,
\* and into _downloadFile.
DownloadFileEntity(v) ==
    /\ cpc = "idle"
    /\ entityType = "file"
    /\ Len(resolves) < MaxResolves
    /\ dlurl' = FileEntityUrl(v)
    /\ cur' = StartOfResolve
    /\ gets' = << >>
    /\ body' = ""
    /\ cpc' = "get"
    /\ UNCHANGED << cacheDir, sidecar, clock, entityVars, md5str, resolves >>
    /\ UNCHANGED << uploadVars, restVars >>

\* requests.get(url, headers=self.headers, allow_redirects=False) and what
\* follows it up to the next request or the write.  The call is made once,
\* outside of any RetryRequest.  A body that was not asked for as a stream
\* may or may not be left in response.raw.
DownloadFileGet(out) ==
    /\ cpc = "get"
    /\ gets' = Append(gets, [url |-> dlurl, status |-> out.status,
                             exc |-> out.exc])
    /\ IF out.exc # ""
       THEN /\ EndResolve([cur EXCEPT !.net = @ + 1, !.result = "error",
                                      !.error = out.exc])
            /\ UNCHANGED << dlurl, body >>
       ELSE IF out.status \in RedirectStatuses
            THEN /\ dlurl' = out.location
                 /\ UNCHANGED body
                 /\ IF StartsWithFile(out.location)
                    THEN EndResolve([cur EXCEPT !.net = @ + 1,
                                                !.result = "path",
                                                !.path = FileUrlToPath(out.location)])
                    ELSE /\ cur' = [cur EXCEPT !.net = @ + 1]
                         /\ cpc' = "redirect_get"
                         /\ UNCHANGED resolves
            ELSE IF RaisesForStatus(out.status)
                 THEN /\ EndResolve([cur EXCEPT !.net = @ + 1,
                                                !.result = "error",
                                                !.error = "HTTPError"])
                      /\ UNCHANGED << dlurl, body >>
                 ELSE /\ cur' = [cur EXCEPT !.net = @ + 1]
                      /\ body' \in {"", remote}
                      /\ cpc' = "write"
                      /\ UNCHANGED << dlurl, resolves >>
    /\ UNCHANGED << cacheDir, sidecar, clock, entityVars, md5str >>
    /\ UNCHANGED << uploadVars, restVars >>

\* requests.get(url, headers=headers, stream=True); raise_for_status()
DownloadFileRedirectGet(out) ==
    /\ cpc = "redirect_get"
    /\ gets' = Append(gets, [url |-> dlurl, status |-> out.status,
                             exc |-> out.exc])
    /\ IF out.exc # "" \/ RaisesForStatus(out.status)
       THEN /\ EndResolve([cur EXCEPT !.net = @ + 1, !.result = "error",
                   !.error = IF out.exc # "" THEN out.exc ELSE "HTTPError"])
            /\ UNCHANGED body
       ELSE /\ cur' = [cur EXCEPT !.net = @ + 1]
            /\ body' = remote
            /\ cpc' = "write"
            /\ UNCHANGED resolves
    /\ UNCHANGED << cacheDir, sidecar, clock, entityVars, md5str, dlurl >>
    /\ UNCHANGED << uploadVars, restVars >>

\* open(path, "wb") and the loop over response.raw.read(FILE_BUFFER_SIZE),
\* then the return of path, files and cacheDir.
DownloadFileWrite(dt) ==
    /\ cpc = "write"
    /\ clock' = clock + dt
    /\ cacheDir' = [cacheDir EXCEPT ![DestName(dlurl)] =
           [exists |-> TRUE, content |-> body, mtime |-> clock']]
    /\ body' = ""
    /\ EndResolve([cur EXCEPT !.result = "path", !.path = DestPath(dlurl)])
    /\ UNCHANGED << sidecar, entityVars, md5str, dlurl, gets >>
    /\ UNCHANGED << uploadVars, restVars >>

DownloadNext ==
    \/ DownloadLocations
    \/ \E dt \in Ticks : Rehash(dt)
    \/ \E ok \in BOOLEAN, dt \in Ticks : DownloadLocationFile(ok, dt)
    \/ \E sanitises \in BOOLEAN : FinishLocations(sanitises)
    \/ \E v \in Versions : DownloadFileEntity(v)
    \/ \E out \in InitialGetResponses : DownloadFileGet(out)
    \/ \E out \in RedirectGetResponses : DownloadFileRedirectGet(out)
    \/ \E dt \in Ticks : DownloadFileWrite(dt)

SpecDownload == InitDownload /\ [][DownloadNext]_vars

\* ------------------------------------- concurrent calls on one cached file
\* The destination file once every block of the body is in it.
Whole == [k \in 1..MaxBlocks |-> "data"]

\* f.write(data) at the position k - 1 of the writer's own handle: a write
\* past the end of a file that another open(path, "wb") has cut to nothing
\* leaves a hole before it.
PutBlock(blocks, k) ==
    [ j \in 1..(IF Len(blocks) > k THEN Len(blocks) ELSE k) |->
        IF j = k THEN "data"
        ELSE IF j <= Len(blocks) THEN blocks[j] ELSE "hole" ]

\* with open(path, "wb") as f: the file is created, or cut to length 0.
OpenDest(p) ==
    /\ writers[p].pc = "idle"
    /\ writers' = [writers EXCEPT ![p] = [pc |-> "write", off |-> 0]]
    /\ dest' = [exists |-> TRUE, blocks |-> << >>]
    /\ UNCHANGED hashed
    /\ UNCHANGED exceptConc

\* One turn of the loop: f.write(data); data = response.raw.read(...)
WriteBlock(p) ==
    /\ writers[p].pc = "write"
    /\ writers[p].off < MaxBlocks
    /\ dest' = [dest EXCEPT !.blocks = PutBlock(@, writers[p].off + 1)]
    /\ writers' = [writers EXCEPT ![p].off = @ + 1]
    /\ UNCHANGED hashed
    /\ UNCHANGED exceptConc

\* The body is exhausted: the file is closed and its path returned.
ReturnPath(p) ==
    /\ writers[p].pc = "write"
    /\ writers[p].off = MaxBlocks
    /\ writers' = [writers EXCEPT ![p].pc = "returned"]
    /\ UNCHANGED << dest, hashed >>
    /\ UNCHANGED exceptConc

\* _downloadLocations finds the file (os.path.exists(filename)) and hashes
\* it as it is: utils.md5_for_file(filename).
HashCached(p) ==
    /\ writers[p].pc = "idle"
    /\ dest.exists
    /\ hashed' = [hashed EXCEPT ![p] = [done |-> TRUE, blocks |-> dest.blocks]]
    /\ writers' = [writers EXCEPT ![p].pc = "hashed"]
    /\ UNCHANGED dest
    /\ UNCHANGED exceptConc

ConcurrentNext ==
    \E p \in Procs :
        \/ OpenDest(p)
        \/ WriteBlock(p)
        \/ ReturnPath(p)
        \/ HashCached(p)

InitConcurrent ==
    /\ UploadInit
    /\ fs["data.bin"] = 0
    /\ CacheIdle
    /\ RestIdle

SpecConcurrent == InitConcurrent /\ [][ConcurrentNext]_vars

\* --------------------------------- concurrent calls of _downloadLocations
\* Each call runs the lines 1108-1128 on the one cached file and its sidecar;
\* a step is one access to the file system.
InitRace ==
    /\ UploadInit
    /\ fs["data.bin"] = 0
    /\ ConcIdle
    /\ AnnIdle
    /\ LoginIdle
    /\ GetIdle
    /\ SubIdle
    /\ TraceIdle
    /\ SessionIdle
    /\ StoreIdle
    /\ \E c \in Contents :
          cacheDir = [n \in CacheNames |->
                         IF n = "data.bin"
                         THEN [exists |-> TRUE, content |-> c, mtime |-> 1]
                         ELSE NoFile]
    /\ sidecar = NoSidecar
    /\ clock = 2
    /\ remote \in Contents
    /\ entityMd5 = Md5(remote)
    /\ entityType = "locationable"
    /\ contentType = "text/plain"
    /\ archive = {}
    /\ cpc = "idle"
    /\ md5str = "None"
    /\ dlurl = ""
    /\ body = ""
    /\ gets = << >>
    /\ cur = NoResolve
    /\ resolves = << >>
    /\ racers = [p \in Procs |-> [NoRacer EXCEPT !.pc = "start"]]

\* if os.path.exists(filename): ... if os.path.exists(filename + ".md5") and
\* getmtime(filename + ".md5") > getmtime(filename): md5str = handle.readline()
RaceCheck(p) ==
    /\ racers[p].pc = "start"
    /\ racers' = [racers EXCEPT ![p] =
          IF ~cfile.exists THEN [@ EXCEPT !.pc = "download"]
          ELSE IF SidecarIsFresh(sidecar, cfile)
          THEN [@ EXCEPT !.pc = "compare",
                         !.md5str = ReadSidecar(sidecar.text),
                         !.trusted = TRUE,
                         !.seen = Md5(cfile.content)]
          ELSE [@ EXCEPT !.pc = "hash"]]
    /\ UNCHANGED << cacheDir, sidecar, clock >>
    /\ UNCHANGED exceptRace

\* md5str = utils.md5_for_file(filename).hexdigest()
RaceHash(p) ==
    /\ racers[p].pc = "hash"
    /\ racers' = [racers EXCEPT ![p] =
          [@ EXCEPT !.pc = "write_sidecar", !.md5str = Md5(cfile.content)]]
    /\ UNCHANGED << cacheDir, sidecar, clock >>
    /\ UNCHANGED exceptRace

\* handle = open(filename + ".md5", "w"); handle.write(md5str); handle.close()
RaceWriteSidecar(p, dt) ==
    /\ racers[p].pc = "write_sidecar"
    /\ sidecar' = [exists |-> TRUE,
                   text |-> WriteSidecar(sidecar.text, racers[p].md5str),
                   mtime |-> clock + dt]
    /\ clock' = clock + dt
    /\ racers' = [racers EXCEPT ![p] = [@ EXCEPT !.pc = "compare"]]
    /\ UNCHANGED cacheDir
    /\ UNCHANGED exceptRace

\* if md5str != entity.get('md5', '')
RaceCompare(p) ==
    /\ racers[p].pc = "compare"
    /\ racers' = [racers EXCEPT ![p] =
          [@ EXCEPT !.pc = IF Md5Differs(racers[p].md5str, entityMd5)
                           THEN "download" ELSE "done"]]
    /\ UNCHANGED << cacheDir, sidecar, clock >>
    /\ UNCHANGED exceptRace

\* utils.download_file(url, filename)
RaceDownload(p, dt) ==
    /\ racers[p].pc = "download"
    /\ cacheDir' = [cacheDir EXCEPT !["data.bin"] =
                       [exists |-> TRUE, content |-> remote,
                        mtime |-> clock + dt]]
    /\ clock' = clock + dt
    /\ racers' = [racers EXCEPT ![p] = [@ EXCEPT !.pc = "done"]]
    /\ UNCHANGED sidecar
    /\ UNCHANGED exceptRace

RaceNext ==
    \/ \E p \in Procs : RaceCheck(p)
    \/ \E p \in Procs : RaceHash(p)
    \/ \E p \in Procs, dt \in Ticks : RaceWriteSidecar(p, dt)
    \/ \E p \in Procs : RaceCompare(p)
    \/ \E p \in Procs, dt \in Ticks : RaceDownload(p, dt)

SpecRace == InitRace /\ [][RaceNext]_vars

\* ------------------------------------------------------------ setAnnotations
\* Annotation dictionaries: some of the keys, each with a value.
AnnKeys == {"foo", "bar"}
AnnValues == {"v"}
Dicts == UNION { [K -> AnnValues] : K \in SUBSET AnnKeys }

\* annotations.update(kwargs)
Update(d, kw) ==
    [ k \in DOMAIN d \cup DOMAIN kw |-> IF k \in DOMAIN kw THEN kw[k] ELSE d[k] ]

\* setAnnotations(entity, annotations, **kwargs), or with annotations
\* omitted, when the parameter is bound to the default dictionary itself:
\* update() then changes that dictionary in place.  The updated dictionary
\* is what goes to to_synapse_annotations and restPUT, which returns the
\* stored annotations or raises.
SetAnnotations(omitted, given, kwargs, ok) ==
    /\ Len(sent) < MaxSetCalls
    /\ LET annotations == IF omitted THEN annotationsDefault ELSE given
           updated == Update(annotations, kwargs)
       IN  /\ annotationsDefault' =
                 IF omitted THEN updated ELSE annotationsDefault
           /\ sent' = Append(sent, [ omitted |-> omitted, kwargs |-> kwargs,
                                     annotations |-> updated,
                                     result |-> IF ok THEN "ok" ELSE "failed" ])
    /\ UNCHANGED exceptAnn

AnnotationsNext ==
    \/ \E kwargs \in Dicts, ok \in BOOLEAN :
          SetAnnotations(TRUE, EmptyDict, kwargs, ok)
    \/ \E given \in Dicts, kwargs \in Dicts, ok \in BOOLEAN :
          SetAnnotations(FALSE, given, kwargs, ok)

InitAnnotations ==
    /\ UploadInit
    /\ fs["data.bin"] = 0
    /\ CacheIdle
    /\ RestIdle

SpecAnnotations == InitAnnotations /\ [][AnnotationsNext]_vars

\* --------------------------------------------------------------------- login
\* What the authentication service answers to a /session request, as
\* restPUT / restPOST hand it on: success, an HTTPError with its status, or
\* an exception that is no HTTPError.
SessionOutcomes == {"ok", "404", "400", "500", "ConnectionError"}
IsHTTPError(out) == out \in {"404", "400", "500"}

\* The configuration files and arguments login can meet.
Configs ==
    [ sessiontoken : {None, "cfg-token"}, username : {None, "cfg-user"},
      password : {None, "cfg-pass"} ]
LoginArguments ==
    [ email : {None, "arg-user"}, password : {None, "arg-pass"},
      sessionToken : {None, "arg-token"} ]

InitLogin ==
    /\ UploadInit
    /\ fs["data.bin"] = 0
    /\ CacheIdle
    /\ ConcIdle
    /\ AnnIdle
    /\ GetIdle
    /\ SubIdle
    /\ TraceIdle
    /\ RaceIdle
    /\ SessionIdle
    /\ StoreIdle
    /\ client \in [ sessionToken : {None}, headerToken : {None},
                    request_profile : {"False", "True"},
                    skip_checks : BOOLEAN ]
    /\ config \in Configs
    /\ loginArgs = NoLoginArgs
    /\ lpc = "idle"
    /\ email = None
    /\ password = None
    /\ lcalls = << >>
    /\ lerror = ""

\* if (email==None or password==None)
NeedsLookup(e, p) == e = None \/ p = None

\* except HTTPError: a rejected token ends the login if it was supplied
\* (404: 'supplied session token is invalid', else the error itself);
\* a rejected stored token lets login go on with the configuration.
FallsBack_Always(supplied) == TRUE

FallsBack(supplied) == supplied = None

\* The stored username and password are taken, or login gives up.
UseStoredCredentials ==
    IF config.username # None /\ config.password # None
    THEN /\ email' = config.username
         /\ password' = config.password
         /\ client' = [client EXCEPT !.request_profile = "False"]
         /\ lpc' = "post"
         /\ UNCHANGED lerror
    ELSE /\ lerror' = "LOGIN FAILED: no credentials provided"
         /\ lpc' = "failed"
         /\ UNCHANGED << email, password, client >>

\* login(email, password, sessionToken) up to its first /session request.
EnterLogin(args) ==
    /\ loginArgs' = [ email |-> args.email, password |-> args.password,
                      sessionToken |-> args.sessionToken, config |-> config,
                      request_profile |-> client.request_profile ]
    /\ lcalls' = IF client.skip_checks THEN << >>
                 ELSE << [op |-> "version_check", token |-> None,
                          email |-> None, password |-> None, out |-> "ok"] >>
    /\ IF NeedsLookup(args.email, args.password)
       THEN IF args.sessionToken # None \/ config.sessiontoken # None
            THEN /\ lpc' = "validate"
                 /\ email' = args.email
                 /\ password' = args.password
                 /\ UNCHANGED << client, lerror >>
            ELSE UseStoredCredentials
       ELSE /\ email' = args.email
            /\ password' = args.password
            /\ client' = [client EXCEPT !.request_profile = "False"]
            /\ lpc' = "post"
            /\ UNCHANGED lerror
    /\ UNCHANGED config

\* A call of login on a client that has made no call yet.
Login(args) ==
    /\ lpc = "idle"
    /\ EnterLogin(args)
    /\ UNCHANGED exceptLogin

\* restPUT('/session', token): the supplied token, or else the stored one.
ValidateToken(out) ==
    /\ lpc = "validate"
    /\ LET supplied == loginArgs.sessionToken
           tok == IF supplied = None THEN config.sessiontoken ELSE supplied
       IN  /\ lcalls' = Append(lcalls, [op |-> "PUT /session", token |-> tok,
                                        email |-> None, password |-> None,
                                        out |-> out])
           /\ IF out = "ok"
              THEN /\ client' = [client EXCEPT !.sessionToken = tok,
                                               !.headerToken = tok]
                   /\ config' = IF supplied # None
                                THEN [config EXCEPT !.sessiontoken = tok]
                                ELSE config
                   /\ lpc' = "done"
                   /\ UNCHANGED << email, password, lerror >>
              ELSE IF IsHTTPError(out)
                   THEN IF FallsBack(supplied)
                        THEN /\ UseStoredCredentials
                             /\ UNCHANGED config
                        ELSE /\ lerror' =
                                   IF out = "404"
                                   THEN "LOGIN FAILED: supplied session token is invalid"
                                   ELSE "HTTPError"
                             /\ lpc' = "failed"
                             /\ UNCHANGED << client, config, email, password >>
                   ELSE /\ lerror' = out
                        /\ lpc' = "failed"
                        /\ UNCHANGED << client, config, email, password >>
    /\ UNCHANGED loginArgs
    /\ UNCHANGED exceptLogin

\* restPOST('/session', {email, password}); the token received is kept and
\* saved.  The method returns before it restores request_profile.
PostSession(out) ==
    /\ lpc = "post"
    /\ lcalls' = Append(lcalls, [op |-> "POST /session", token |-> None,
                                 email |-> email, password |-> password,
                                 out |-> out])
    /\ IF out = "ok"
       THEN /\ client' = [client EXCEPT !.sessionToken = "new-token",
                                        !.headerToken = "new-token"]
            /\ config' = [config EXCEPT !.sessiontoken = "new-token"]
            /\ lpc' = "done"
            /\ UNCHANGED lerror
       ELSE /\ lerror' = IF out = "400"
                         THEN "LOGIN FAILED: invalid username or password"
                         ELSE IF IsHTTPError(out) THEN "HTTPError" ELSE out
            /\ lpc' = "failed"
            /\ UNCHANGED << client, config >>
    /\ UNCHANGED << loginArgs, email, password >>
    /\ UNCHANGED exceptLogin

LoginNext ==
    \/ \E args \in LoginArguments : Login(args)
    \/ \E out \in SessionOutcomes : ValidateToken(out)
    \/ \E out \in SessionOutcomes : PostSession(out)

SpecLogin == InitLogin /\ [][LoginNext]_vars

\* -------------------------------------------------------------------- logout
\* del self.sessionToken leaves the client without that attribute.
Deleted == "<deleted>"

InitSession ==
    /\ InitLogin
    /\ client.skip_checks
    /\ client.request_profile = "False"

\* The part of the client a logout is about.
SessionOf(c) == [sessionToken |-> c.sessionToken, headerToken |-> c.headerToken]

\* del self.headers["sessionToken"]
DelHeader_Keep(c) == c

DelHeader(c) == [c EXCEPT !.headerToken = None]

\* The lines 311-321 of logout: the two del statements, then the removal of
\* the stored token.  del raises on an attribute or a key that is not there.
LocalLogout ==
    IF client.sessionToken = Deleted
    THEN /\ lerror' = "AttributeError"
         /\ lpc' = "failed"
         /\ UNCHANGED << client, config >>
    ELSE IF client.headerToken = None
    THEN /\ client' = [client EXCEPT !.sessionToken = Deleted]
         /\ lerror' = "KeyError"
         /\ lpc' = "failed"
         /\ UNCHANGED config
    ELSE /\ client' = DelHeader([client EXCEPT !.sessionToken = Deleted])
         /\ config' = [config EXCEPT !.sessiontoken = None]
         /\ lpc' = "done"
         /\ UNCHANGED lerror

\* One more call by the user of the client, after the last one has ended.
NextCall(op, local) ==
    /\ lpc \in {"idle", "done", "failed"}
    /\ session.n < MaxSessionCalls
    /\ session' = [n |-> session.n + 1, op |-> op, local |-> local,
                   client |-> SessionOf(client), stored |-> config.sessiontoken]

\* login(email, password, sessionToken) as the next call.
SessionLogin(args) ==
    /\ NextCall("login", FALSE)
    /\ EnterLogin(args)
    /\ UNCHANGED exceptSession

\* logout(local) up to its remote call: if not local: self.restDELETE('/session')
Logout(local) ==
    /\ NextCall("logout", local)
    /\ lcalls' = << >>
    /\ IF local
       THEN LocalLogout
       ELSE /\ lpc' = "delete"
            /\ lerror' = ""
            /\ UNCHANGED << client, config >>
    /\ UNCHANGED << loginArgs, email, password >>
    /\ UNCHANGED exceptSession

\* self.restDELETE('/session', endpoint=self.authEndpoint) and what follows.
DeleteSession(out) ==
    /\ lpc = "delete"
    /\ lcalls' = Append(lcalls, [op |-> "DELETE /session",
                                 token |-> client.headerToken,
                                 email |-> None, password |-> None,
                                 out |-> out])
    /\ IF out = "ok"
       THEN LocalLogout
       ELSE /\ lerror' = IF IsHTTPError(out) THEN "HTTPError" ELSE out
            /\ lpc' = "failed"
            /\ UNCHANGED << client, config >>
    /\ UNCHANGED << loginArgs, email, password, session >>
    /\ UNCHANGED exceptSession

SessionNext ==
    \/ \E args \in LoginArguments : SessionLogin(args)
    \/ \E local \in BOOLEAN : Logout(local)
    \/ \E out \in SessionOutcomes : DeleteSession(out)
    \/ \E out \in SessionOutcomes : ValidateToken(out)
    \/ \E out \in SessionOutcomes : PostSession(out)

SpecSession == InitSession /\ [][SessionNext]_vars

\* --------------------------------------------------------------------- store
\* store(obj, **kwargs) of a File entity: with or without an id, a
\* dataFileHandleId (1: a handle issued earlier) and a path (none, a local
\* file, a URL); createOrUpdate or not; an activity or none.
StoreArguments ==
    [ id : {None, "syn1"}, dataFileHandleId : {NoHandleId, 1},
      path : {"", "data.bin", "http://example.org/data.csv"},
      synapseStore : {"None", "False"},
      createOrUpdate : BOOLEAN, activity : BOOLEAN ]

\* What a remote call of store ends in: success, 409 Conflict, another error.
StoreOutcomes == {"ok", "409", "500"}

InitStore ==
    /\ UploadInit
    /\ fs["data.bin"] = 0
    /\ CacheIdle
    /\ RestIdle

\* if 'dataFileHandleId' not in properties or True:
NeedsFileHandle_IfMissing(props) == props.dataFileHandleId = NoHandleId

NeedsFileHandle(props) == props.dataFileHandleId = NoHandleId \/ TRUE

\* The entry of store for the entity of args, up to its first remote call:
\* properties is split off the entity; a File with a path is uploaded first.
EnterStore(args) ==
    /\ storeArgs' = args
    /\ properties' = [id |-> args.id, dataFileHandleId |-> args.dataFileHandleId]
    /\ stcalls' = << >>
    /\ stpc' = IF args.path # "" /\ NeedsFileHandle(properties')
               THEN "upload" ELSE "entity"
    /\ stores' = [stores EXCEPT !.n = @ + 1]
    /\ UNCHANGED exceptStore

\* The first store of an entity.
Store(args) ==
    /\ stpc = "idle"
    /\ EnterStore(args)

\* The entity a store returned is stored again, its file unchanged.
StoreAgain ==
    /\ stpc = "done"
    /\ stores.n < MaxStores
    /\ EnterStore([storeArgs EXCEPT
                      !.id = properties.id,
                      !.dataFileHandleId = properties.dataFileHandleId])

\* A call of store, logged with the properties it was made with.
StoreCall(op, out) ==
    [op |-> op, id |-> properties.id,
     dataFileHandleId |-> properties.dataFileHandleId, out |-> out]

\* fileHandle = self._uploadToFileHandleService(entity.path, synapseStore);
\* properties['dataFileHandleId'] = fileHandle['id']
StoreUpload(ok) ==
    /\ stpc = "upload"
    /\ stcalls' = Append(stcalls,
          [StoreCall(IF UrlIsLinked(storeArgs.path, storeArgs.synapseStore)
                        \/ StoreIsFalse(storeArgs.synapseStore)
                     THEN "_addURLtoFileHandleService"
                     ELSE "_chunkedUploadFile",
                     IF ok THEN "ok" ELSE "500")
           EXCEPT !.dataFileHandleId = IF ok THEN stores.issued + 1
                                       ELSE NoHandleId])
    /\ IF ok
       THEN /\ properties' = [properties EXCEPT
                                 !.dataFileHandleId = stores.issued + 1]
            /\ stores' = [stores EXCEPT !.issued = @ + 1]
            /\ stpc' = "entity"
       ELSE /\ stpc' = "failed"
            /\ UNCHANGED << properties, stores >>
    /\ UNCHANGED storeArgs
    /\ UNCHANGED exceptStore

\* if 'id' in properties: self._updateEntity(properties)
\* else: self._createEntity(properties), with its handling of a 409.
StoreEntity(out) ==
    /\ stpc = "entity"
    /\ IF properties.id # None
       THEN /\ stcalls' = Append(stcalls, StoreCall("_updateEntity", out))
            /\ stpc' = IF out = "ok" THEN "annotations" ELSE "failed"
            /\ UNCHANGED properties
       ELSE /\ stcalls' = Append(stcalls, StoreCall("_createEntity", out))
            /\ IF out = "ok"
               THEN /\ properties' = [properties EXCEPT !.id = "syn1"]
                    /\ stpc' = "annotations"
               ELSE /\ stpc' = IF storeArgs.createOrUpdate /\ out = "409"
                               THEN "find" ELSE "failed"
                    /\ UNCHANGED properties
    /\ UNCHANGED << storeArgs, stores >>
    /\ UNCHANGED exceptStore

\* existing_entity_id = self._findEntityIdByNameAndParent(...); if found:
\* existing_entity = self._getEntity(existing_entity_id)
StoreFindExisting(found, out) ==
    /\ stpc = "find"
    /\ IF ~found
       THEN /\ stcalls' = Append(stcalls,
                                 StoreCall("_findEntityIdByNameAndParent", "ok"))
            /\ stpc' = "failed"
       ELSE /\ stcalls' = stcalls
                  \o << StoreCall("_findEntityIdByNameAndParent", "ok"),
                        StoreCall("_getEntity", out) >>
            /\ stpc' = IF out = "ok" THEN "update_existing" ELSE "failed"
    /\ UNCHANGED << storeArgs, properties, stores >>
    /\ UNCHANGED exceptStore

\* existing_entity.update(properties); properties = self._updateEntity(existing_entity)
StoreUpdateExisting(out) ==
    /\ stpc = "update_existing"
    /\ stcalls' = Append(stcalls,
          [StoreCall("_updateEntity", out) EXCEPT !.id = "syn1"])
    /\ IF out = "ok"
       THEN /\ properties' = [properties EXCEPT !.id = "syn1"]
            /\ stpc' = "annotations"
       ELSE /\ stpc' = "failed"
            /\ UNCHANGED properties
    /\ UNCHANGED << storeArgs, stores >>
    /\ UNCHANGED exceptStore

\* annotations = self.setAnnotations(properties, annotations)
StoreAnnotations(out) ==
    /\ stpc = "annotations"
    /\ stcalls' = Append(stcalls, StoreCall("setAnnotations", out))
    /\ stpc' = IF out # "ok" THEN "failed"
               ELSE IF storeArgs.activity THEN "provenance" ELSE "done"
    /\ UNCHANGED << storeArgs, properties, stores >>
    /\ UNCHANGED exceptStore

\* activity = self.setProvenance(properties, activity);
\* properties = self._getEntity(properties)
StoreProvenance(out) ==
    /\ stpc = "provenance"
    /\ stcalls' = IF out = "ok"
                  THEN stcalls \o << StoreCall("setProvenance", "ok"),
                                     StoreCall("_getEntity", "ok") >>
                  ELSE Append(stcalls, StoreCall("setProvenance", out))
    /\ stpc' = IF out = "ok" THEN "done" ELSE "failed"
    /\ UNCHANGED << storeArgs, properties, stores >>
    /\ UNCHANGED exceptStore

StoreNext ==
    \/ \E args \in StoreArguments : Store(args)
    \/ StoreAgain
    \/ \E ok \in BOOLEAN : StoreUpload(ok)
    \/ \E out \in StoreOutcomes : StoreEntity(out)
    \/ \E found \in BOOLEAN, out \in StoreOutcomes : StoreFindExisting(found, out)
    \/ \E out \in StoreOutcomes : StoreUpdateExisting(out)
    \/ \E out \in StoreOutcomes : StoreAnnotations(out)
    \/ \E out \in StoreOutcomes : StoreProvenance(out)

SpecStore == InitStore /\ [][StoreNext]_vars

\* ----------------------------------------------------------- get, getEntity
\* get is given a Synapse id (or an entity with one), or a mapping with a
\* name and no id; a version or none (0); downloadFile or not.
GetArguments ==
    [ entity : {"syn1", "named"}, version : {0, 1}, downloadFile : BOOLEAN ]

\* The bundles the repository answers with: a File with no file handle in
\* the bundle (unmet access requirements), with a handle stored in Synapse,
\* with an external handle of an http or of a file URL; a Locationable
\* entity; an entity of neither kind.
Bundles ==
    { [type |-> "File", handle |-> h] :
         h \in {"none", "stored", "external-http", "external-file"} }
    \cup { [type |-> "Data", handle |-> "none"],
           [type |-> "Folder", handle |-> "none"] }

ExternalUrlOf(h) ==
    CASE h = "external-http" -> "http://example.org/data.csv"
      [] h = "external-file" -> "file:///data/local.bin"
      [] OTHER -> ""

\* elif downloadFile: (after both tests of the file handle)
DownloadsHandle_Always(downloadFile) == TRUE

DownloadsHandle(downloadFile) == downloadFile

GetCall(op, uri) == [op |-> op, uri |-> uri, result |-> "ok"]

\* '/entity/%s/version/%d/bundle?mask=%d' if version else '/entity/%s/bundle?mask=%d'
BundleUri(version) ==
    IF version # 0 THEN "/entity/syn1/version/1/bundle" ELSE "/entity/syn1/bundle"

\* get(entity, version, downloadFile) up to its first remote call.
\* getEntity(entity, version) is get(entity, version, downloadFile=False).
Get(args) ==
    /\ gpc = "idle"
    /\ getArgs' = args
    /\ gcalls' = << >>
    /\ gpc' = IF args.entity = "named" THEN "find" ELSE "bundle"
    /\ UNCHANGED << bundle, gentity >>
    /\ UNCHANGED exceptGet

\* _findEntityIdByNameAndParent: one query; a single result gives the id,
\* anything else None, of which get cannot take the id.
FindEntityIdByNameAndParent(out) ==
    /\ gpc = "find"
    /\ gcalls' = Append(gcalls,
           [GetCall("query", "/query") EXCEPT
               !.result = IF out = "failed" THEN "failed" ELSE "ok"])
    /\ gpc' = IF out = "found" THEN "bundle" ELSE "failed"
    /\ UNCHANGED << getArgs, bundle, gentity >>
    /\ UNCHANGED exceptGet

\* bundle = self.restGET(uri) and the look at the bundle's file handles and
\* at the kind of the entity.
GetBundle(ok, b) ==
    /\ gpc = "bundle"
    /\ gcalls' = Append(gcalls,
           [GetCall("bundle GET", BundleUri(getArgs.version)) EXCEPT
               !.result = IF ok THEN "ok" ELSE "failed"])
    /\ IF ~ok
       THEN /\ gpc' = "failed"
            /\ UNCHANGED << bundle, gentity >>
       ELSE /\ bundle' = b
            /\ IF b.type = "File" /\ b.handle \in {"external-http", "external-file"}
               THEN /\ gentity' =
                         [ externalURL |-> ExternalUrlOf(b.handle),
                           synapseStore |-> "False",
                           path |-> IF StartsWithFile(ExternalUrlOf(b.handle))
                                    THEN FileUrlToPath(ExternalUrlOf(b.handle))
                                    ELSE "" ]
                    /\ gpc' = IF StartsWithFile(ExternalUrlOf(b.handle))
                              THEN "done"
                              ELSE IF DownloadsHandle(getArgs.downloadFile)
                                   THEN "download_file" ELSE "done"
               ELSE /\ gentity' = NoEntity
                    /\ gpc' =
                         IF b.type = "File" /\ b.handle = "stored"
                            /\ DownloadsHandle(getArgs.downloadFile)
                         THEN "download_file"
                         ELSE IF getArgs.downloadFile /\ b.type = "Data"
                              THEN "download_locations"
                              ELSE "done"
    /\ UNCHANGED getArgs
    /\ UNCHANGED exceptGet

\* entity.update(self._downloadFileEntity(entity))
GetDownloadFileEntity(ok) ==
    /\ gpc = "download_file"
    /\ gcalls' = Append(gcalls,
           [GetCall("_downloadFileEntity", "/entity/syn1/file") EXCEPT
               !.result = IF ok THEN "ok" ELSE "failed"])
    /\ gpc' = IF ok THEN "done" ELSE "failed"
    /\ gentity' = IF ok THEN [gentity EXCEPT !.path = CachePath] ELSE gentity
    /\ UNCHANGED << getArgs, bundle >>
    /\ UNCHANGED exceptGet

\* entity = self._downloadLocations(entity)
GetDownloadLocations(ok) ==
    /\ gpc = "download_locations"
    /\ gcalls' = Append(gcalls,
           [GetCall("_downloadLocations", LocationUrl) EXCEPT
               !.result = IF ok THEN "ok" ELSE "failed"])
    /\ gpc' = IF ok THEN "done" ELSE "failed"
    /\ gentity' = IF ok THEN [gentity EXCEPT !.path = CachePath] ELSE gentity
    /\ UNCHANGED << getArgs, bundle >>
    /\ UNCHANGED exceptGet

GetNext ==
    \/ \E args \in GetArguments : Get(args)
    \/ \E out \in {"found", "none", "failed"} : FindEntityIdByNameAndParent(out)
    \/ \E ok \in BOOLEAN, b \in Bundles : GetBundle(ok, b)
    \/ \E ok \in BOOLEAN : GetDownloadFileEntity(ok)
    \/ \E ok \in BOOLEAN : GetDownloadLocations(ok)

InitGet == InitAnnotations

SpecGet == InitGet /\ [][GetNext]_vars

\* ------------------------------------------------------------ getSubmissions
\* limit = 20
limit == 20

\* The page the server returns for an offset: the submissions are numbered
\* 1..total in the server's order.
PageAt(off) ==
    [ k \in 1..(IF total - off >= limit THEN limit
                ELSE IF total - off > 0 THEN total - off ELSE 0) |-> off + k ]

\* if status not in ['OPEN', 'CLOSED', 'SCORED', 'INVALID']
StatusArguments == {None, "OPEN", "BOGUS"}
ValidStatus(st) == st \in {"OPEN", "CLOSED", "SCORED", "INVALID"}

\* if result_count >= offset + len(submissions)
OutOfResults_Late(rc, off, n) == rc > off + n

OutOfResults(rc, off, n) == rc >= off + n

InitSubmissions ==
    /\ UploadInit
    /\ fs["data.bin"] = 0
    /\ CacheIdle
    /\ ConcIdle
    /\ AnnIdle
    /\ LoginIdle
    /\ GetIdle
    /\ TraceIdle
    /\ RaceIdle
    /\ SessionIdle
    /\ StoreIdle
    /\ total \in 0..MaxResults
    /\ subStatus = None
    /\ gen = NoGen
    /\ spc = "idle"
    /\ yielded = << >>
    /\ uris = << >>

\* getSubmissions(evaluation, status): the generator is made, none of its
\* body has run.
GetSubmissions(st) ==
    /\ spc = "idle"
    /\ subStatus' = st
    /\ gen' = [ result_count |-> 0, offset |-> 0 - limit,
                max_results |-> 1000, submissions |-> << >> ]
    /\ spc' = "suspended"
    /\ UNCHANGED << total, yielded, uris >>
    /\ UNCHANGED exceptSub

\* submissions[i] of Python: a negative index counts from the end.
InRange(idx, n) == idx >= 0 - n /\ idx < n
ItemAt(seq, idx) == IF idx >= 0 THEN seq[idx + 1] ELSE seq[Len(seq) + idx + 1]

\* The frame after the yield of submissions[i], or the IndexError.
YieldFrom(frame) ==
    LET idx == frame.result_count - frame.offset IN
    IF InRange(idx, Len(frame.submissions))
    THEN /\ yielded' = Append(yielded, ItemAt(frame.submissions, idx))
         /\ gen' = [frame EXCEPT !.result_count = @ + 1]
         /\ spc' = "suspended"
    ELSE /\ gen' = frame
         /\ spc' = "raised"
         /\ UNCHANGED yielded

\* One resumption of the generator, up to its next yield, its return or an
\* exception: at most one page is requested in it.
NextSubmission(ok) ==
    /\ spc = "suspended"
    /\ IF gen.result_count < gen.max_results
       THEN IF OutOfResults(gen.result_count, gen.offset, Len(gen.submissions))
            THEN IF subStatus # None /\ ~ValidStatus(subStatus)
                 THEN /\ gen' = [gen EXCEPT !.offset = @ + limit]
                      /\ spc' = "raised"
                      /\ UNCHANGED << yielded, uris >>
                 ELSE /\ uris' = Append(uris, [ status |-> subStatus,
                                                limit |-> limit,
                                                offset |-> gen.offset + limit,
                                                ok |-> ok ])
                      /\ IF ~ok
                         THEN /\ gen' = [gen EXCEPT !.offset = @ + limit]
                              /\ spc' = "raised"
                              /\ UNCHANGED yielded
                         ELSE LET page == PageAt(gen.offset + limit)
                                  frame == [gen EXCEPT
                                              !.offset = @ + limit,
                                              !.max_results = total,
                                              !.submissions = page]
                              IN  IF Len(page) = 0
                                  THEN /\ gen' = frame
                                       /\ spc' = "returned"
                                       /\ UNCHANGED yielded
                                  ELSE YieldFrom(frame)
            ELSE /\ ok
                 /\ YieldFrom(gen)
                 /\ UNCHANGED uris
       ELSE /\ ok
            /\ spc' = "returned"
            /\ UNCHANGED << gen, yielded, uris >>
    /\ UNCHANGED << total, subStatus >>
    /\ UNCHANGED exceptSub

SubmissionsNext ==
    \/ \E st \in StatusArguments : GetSubmissions(st)
    \/ \E ok \in BOOLEAN : NextSubmission(ok)

SpecSubmissions == InitSubmissions /\ [][SubmissionsNext]_vars

\* ------------------------------- _chunkedUploadFile, verbose and progress
\* The call of _chunkedUploadFile as a function of the responses it is given:
\* a run is the record of its local variables, of self.debug, of what it
\* called and slept (sleeps: those of the remote call under way or made
\* last; polls: those of the poll loop), and of the kinds of text it wrote to
\* stdout and stderr.
Verbosities == {"False", "True", "debug"}

\* if verbose:
Truthy(verbose) == verbose # "False"

Run0(debug) ==
    [ pc |-> "idle", verbose |-> "False", progress |-> FALSE,
      debug |-> debug, old_debug |-> debug, before |-> debug,
      debugSeen |-> debug,
      i |-> 0, offset |-> 0, token |-> "", status |-> NoStatus,
      statuses |-> << >>, calls |-> << >>, sleeps |-> << >>,
      inCall |-> FALSE, returned |-> FALSE, left |-> 0, wait |-> 0,
      polls |-> << >>,
      result |-> NoHandle, error |-> NoError, stdout |-> {}, stderr |-> {} ]

\* if cond: sys.stdout.write(...) / sys.stderr.write(...)
Write(r, cond, stream, text) ==
    IF cond THEN [r EXCEPT ![stream] = @ \cup {text}] ELSE r

\* finally: self.debug = old_debug
Finally_Keep(r) == r

Finally(r) == [r EXCEPT !.debug = r.old_debug]

\* An exception raised inside the try block.
RaiseIn(r, e) == Finally([r EXCEPT !.pc = "failed", !.error = e])

\* with_retry = RetryRequest(..., verbose=verbose, tag='S3 put RetryRequest')
with_retry_QuietOnly(verbose) ==
    IF Truthy(verbose) THEN [S3PutRetryRequest EXCEPT !.retries = 0]
    ELSE S3PutRetryRequest

with_retry(verbose) == S3PutRetryRequest

\* The lines 1306-1318: the precondition checks, old_debug, the debug switch.
TracedEnter(r, fp, cs, verbose, progress) ==
    LET r0 == [r EXCEPT !.verbose = verbose, !.progress = progress,
                        !.before = r.debug]
    IN  IF ChunksizeTooSmall(cs)
        THEN [r0 EXCEPT !.pc = "failed",
                        !.error = [type |-> "ValueError",
                                   message |-> "Minimum chunksize is 5 MB."]]
        ELSE IF FileNotFound(fp)
        THEN [r0 EXCEPT !.pc = "failed",
                        !.error = [type |-> "ValueError",
                                   message |-> "File not found"]]
        ELSE [r0 EXCEPT !.pc = "token",
                        !.old_debug = r.debug,
                        !.debug = IF verbose = "debug" THEN TRUE ELSE r.debug,
                        !.debugSeen = IF verbose = "debug" THEN TRUE ELSE r.debug,
                        !.i = 0]

\* The head of the chunk loop, with its trace.
TracedLoopHead(r, off, size, cs) ==
    IF Exhausted(size, off)
    THEN [r EXCEPT !.pc = "start_daemon"]
    ELSE Write([r EXCEPT !.pc = "chunk_url",
                         !.offset = off + ReadChunk(size, off, cs).len,
                         !.i = IncrChunk(r.i)],
               Truthy(r.verbose), "stderr", "Chunk")

\* The lines 1386-1403 after a status was received.
TracedAfterStatus(r, st) ==
    LET r0 == [r EXCEPT !.status = st, !.statuses = Append(@, st.state)]
    IN  IF KeepPolling(st)
        THEN [r0 EXCEPT !.pc = "poll_sleep"]
        ELSE LET r1 == Write(r0, r0.progress, "stdout", "!")
             IN  IF DaemonFailed(st) THEN RaiseIn(r1, DaemonError(st))
                 ELSE IF st.fileHandleId = Missing
                 THEN RaiseIn(r1, [type |-> "KeyError", message |-> "fileHandleId"])
                 ELSE [r1 EXCEPT !.pc = "get_file_handle"]

\* One attempt of a remote call under a retry policy that traces when
\* tracing is TRUE; rest is TRUE for the calls made through restGET and
\* restPOST, which print the response when self.debug is set and write its
\* content to stderr when it is an error.  returned tells that the call
\* has returned to _chunkedUploadFile with a result.
TracedAttempt(r, policy, tracing, rest, entry, out, raises) ==
    LET r0 == IF r.inCall THEN r
              ELSE [r EXCEPT !.calls = Append(@, entry), !.sleeps = << >>,
                             !.left = policy.retries, !.wait = policy.wait]
        r1 == Write(Write(r0, rest /\ r0.debug /\ out.exc = "",
                          "stdout", "debug_response"),
                    rest /\ out.exc = "" /\ out.status >= 400,
                    "stderr", "response.content")
    IN  IF RetryDecision(policy, out, r1.left) = "retry"
        THEN Write([r1 EXCEPT !.inCall = TRUE,
                              !.returned = FALSE,
                              !.sleeps = Append(@, r1.wait),
                              !.wait = @ * policy.back_off,
                              !.left = @ - 1],
                   tracing, "stderr", "retry")
        ELSE IF raises
        THEN RaiseIn([r1 EXCEPT !.inCall = FALSE, !.returned = FALSE],
                     HttpErrorOf(out))
        ELSE [r1 EXCEPT !.inCall = FALSE, !.returned = TRUE]

\* A call made through restGET or restPOST, and the PUT of a chunk.
TracedRest(r, entry, out) ==
    TracedAttempt(r, STANDARD_RETRY_REQUEST, FALSE, TRUE, entry, out,
                  RestRaises(out))
TracedPut(r, entry, out) ==
    TracedAttempt(r, with_retry(r.verbose), Truthy(r.verbose), FALSE, entry,
                  out, PutRaises(out))

\* The run after the step it stands at, given the response out of the
\* service, the token t and the status st the service answers with.
TracedStep(r, size, cs, out, t, st) ==
    CASE r.pc = "token" ->
           LET x == TracedRest(r, [op |-> "createChunkedFileUploadToken",
                                   token |-> "", n |-> 0], out)
           IN  IF ~x.returned THEN x
               ELSE TracedLoopHead(
                        Write(Write([x EXCEPT !.token = t],
                                    Truthy(x.verbose), "stderr", "token="),
                              x.progress, "stdout", "."),
                        0, size, cs)
      [] r.pc = "chunk_url" ->
           LET x == TracedRest(r, [op |-> "createChunkedFileUploadChunkURL",
                                   token |-> r.token, n |-> r.i], out)
           IN  IF ~x.returned THEN x
               ELSE Write(Write([x EXCEPT !.pc = "chunk_put"],
                                Truthy(x.verbose), "stderr", "url="),
                          x.progress, "stdout", ".")
      [] r.pc = "chunk_put" ->
           LET x == TracedPut(r, [op |-> "PUT", token |-> r.token,
                                  n |-> r.i], out)
           IN  IF ~x.returned THEN x
               ELSE TracedLoopHead(Write(x, x.progress, "stdout", ","),
                                   x.offset, size, cs)
      [] r.pc = "start_daemon" ->
           LET x == TracedRest(r, [op |-> "startCompleteUploadDaemon",
                                   token |-> r.token, n |-> r.i], out)
           IN  IF ~x.returned THEN x ELSE TracedAfterStatus(x, st)
      [] r.pc = "poll_sleep" ->
           [Write(r, r.progress, "stdout", "!") EXCEPT
               !.polls = Append(@, CHUNK_UPLOAD_POLL_INTERVAL),
               !.pc = "poll_status"]
      [] r.pc = "poll_status" ->
           LET x == TracedRest(r, [op |-> "completeUploadDaemonStatus",
                                   token |-> "", n |-> 0], out)
           IN  IF ~x.returned THEN x
               ELSE TracedAfterStatus(
                        Write(x, Truthy(x.verbose), "stderr", "status="), st)
      [] r.pc = "get_file_handle" ->
           LET x == TracedRest(r, [op |-> "getFileHandle", token |-> "",
                                   n |-> 0], out)
           IN  IF ~x.returned THEN x
               ELSE Finally(Write(
                        [x EXCEPT !.pc = "done",
                                  !.result = ServerFileHandle(x.status.fileHandleId)],
                        x.progress, "stdout", "Upload completed"))
      [] OTHER -> r

\* The responses the traced runs are given.
TraceResponses ==
    { Resp(200, "", {}), Resp(503, "", {}), Resp(403, "", {"Forbidden"}),
      Resp(500, "", {S3InternalError}) }

InitVerbose ==
    /\ UploadInit
    /\ fs["data.bin"] = CHUNK_SIZE + 1
    /\ CacheIdle
    /\ ConcIdle
    /\ AnnIdle
    /\ LoginIdle
    /\ GetIdle
    /\ SubIdle
    /\ RaceIdle
    /\ SessionIdle
    /\ StoreIdle
    /\ \E d \in BOOLEAN :
          /\ runA = Run0(d)
          /\ runB = Run0(d)

\* The same call made twice: quietly, and with verbose and progress.
TracedChunkedUploadFile(fp, cs, verbose, progress) ==
    /\ runA.pc = "idle"
    /\ runA' = TracedEnter(runA, fp, cs, "False", FALSE)
    /\ runB' = TracedEnter(runB, fp, cs, verbose, progress)
    /\ filepath' = fp
    /\ chunksize' = cs
    /\ UNCHANGED << fs, pc, i, offset, chunk, token, url, status, fileHandle,
                    error, calls, inCall, outcomes, retrySleeps, wait,
                    retriesLeft, pollSleeps, statuses, filename, synapseStore >>
    /\ UNCHANGED << cacheVars, concVars, annVars, loginVars, getVars, subVars,
                    raceVars, sessionVars, storeVars >>

\* Both runs take their next step on the same response.
TracedResponse(out, t, st) ==
    /\ \/ runA.pc \notin {"idle", "done", "failed"}
       \/ runB.pc \notin {"idle", "done", "failed"}
    /\ runA' = TracedStep(runA, fs[filepath], chunksize, out, t, st)
    /\ runB' = TracedStep(runB, fs[filepath], chunksize, out, t, st)
    /\ UNCHANGED exceptTrace

VerboseNext ==
    \/ \E fp \in Paths \cup {NoPath}, cs \in {1 * MB, CHUNK_SIZE},
          verbose \in Verbosities, progress \in BOOLEAN :
          TracedChunkedUploadFile(fp, cs, verbose, progress)
    \/ \E out \in TraceResponses, t \in Tokens,
          st \in DaemonStatuses(runA.statuses) : TracedResponse(out, t, st)

SpecVerbose == InitVerbose /\ [][VerboseNext]_vars

\* =================================================================== claims
\* Helpers of the statements below.
CallsOf(op) == SelectSeq(calls, LAMBDA c : c.op = op)
NumChunksOf(size, cs) == (size + cs - 1) \div cs
NumProcessing == Len(SelectSeq(statuses, LAMBDA st : st = "PROCESSING"))
LastCall == calls[Len(calls)]

\* The remote call b may directly follow the remote call a.
MayFollow(a, b) ==
    CASE a.op = "createChunkedFileUploadToken" ->
             \/ b.op = "createChunkedFileUploadChunkURL" /\ b.chunkNumber = 1
             \/ b.op = "startCompleteUploadDaemon"
      [] a.op = "createChunkedFileUploadChunkURL" ->
             b.op = "PUT" /\ b.chunkNumber = a.chunkNumber
      [] a.op = "PUT" ->
             \/ b.op = "createChunkedFileUploadChunkURL" /\ b.chunkNumber = a.chunkNumber + 1
             \/ b.op = "startCompleteUploadDaemon"
      [] a.op = "startCompleteUploadDaemon" ->
             b.op \in {"completeUploadDaemonStatus", "getFileHandle"}
      [] a.op = "completeUploadDaemonStatus" ->
             b.op \in {"completeUploadDaemonStatus", "getFileHandle"}
      [] OTHER -> FALSE

\* C1: the remote calls of an upload occur in the order token request, then
\* for k = 1..N the signed-URL request for chunk k and the PUT of chunk k,
\* then the daemon start, then status polls, then the file handle fetch; a
\* call is issued only after the call before it returned successfully, so
\* the URL request for chunk k+1 never precedes the successful PUT of chunk k.
C1_CallOrder ==
    /\ Len(calls) >= 1 => calls[1].op = "createChunkedFileUploadToken"
    /\ \A k \in 1..(Len(calls) - 1) :
          /\ calls[k].result = "ok"
          /\ MayFollow(calls[k], calls[k + 1])
    /\ Len(CallsOf("createChunkedFileUploadToken")) <= 1
    /\ Len(CallsOf("startCompleteUploadDaemon")) <= 1
    /\ Len(CallsOf("getFileHandle")) <= 1

C1_Witness ==
    /\ pc = "done"
    /\ Len(CallsOf("PUT")) >= 2
    /\ Len(CallsOf("completeUploadDaemonStatus")) >= 1

\* C2: the chunk numbers of the signed-URL requests are 1, 2, ... in this
\* order, without gap, duplicate or reordering, and in a completed upload of
\* a file of N chunks they are exactly 1..N.
C2_ChunkNumbering ==
    LET urls == CallsOf("createChunkedFileUploadChunkURL") IN
    /\ \A k \in 1..Len(urls) : urls[k].chunkNumber = k
    /\ pc = "done" => Len(urls) = NumChunksOf(fs[filepath], chunksize)

C2_Witness ==
    /\ pc = "done"
    /\ Len(CallsOf("createChunkedFileUploadChunkURL")) = 3

\* C3: the completion daemon is started only after every chunk of the file
\* was PUT successfully, with chunkNumbers the list [1..N] of the N chunks
\* PUT (empty for N = 0); after a failed URL request or PUT it is not started.
C3_DaemonStart ==
    LET puts == CallsOf("PUT")
        urls == CallsOf("createChunkedFileUploadChunkURL")
    IN  /\ \A k \in 1..Len(calls) :
              calls[k].op = "startCompleteUploadDaemon" =>
                  /\ \A p \in 1..Len(puts) : puts[p].result = "ok"
                  /\ \A u \in 1..Len(urls) : urls[u].result = "ok"
                  /\ Len(puts) = NumChunksOf(fs[filepath], chunksize)
                  /\ calls[k].chunkNumbers = [a \in 1..Len(puts) |-> a]
                  /\ \A j \in (k + 1)..Len(calls) : calls[j].op # "PUT"
        /\ (\E k \in 1..Len(calls) :
               /\ calls[k].op \in {"createChunkedFileUploadChunkURL", "PUT"}
               /\ calls[k].result = "failed")
           => Len(CallsOf("startCompleteUploadDaemon")) = 0

C3_Witness ==
    /\ Len(CallsOf("startCompleteUploadDaemon")) = 1
    /\ Len(CallsOf("PUT")) = 2
    /\ LastCall.op = "startCompleteUploadDaemon"
    /\ LastCall.result = "ok"

\* C4: the poll loop sleeps once per PROCESSING status received (the status
\* of the daemon start included), issues exactly one status query after each
\* sleep, and stops at the first status that is not PROCESSING; for the
\* statuses PROCESSING, PROCESSING, COMPLETED(X) it sleeps exactly twice and
\* the upload returns the file handle fetched for X.
C4_PollLoop ==
    /\ Len(pollSleeps) = IF pc = "poll_sleep" THEN NumProcessing - 1 ELSE NumProcessing
    /\ Len(CallsOf("completeUploadDaemonStatus")) =
          IF pc = "poll_status" /\ ~inCall THEN Len(pollSleeps) - 1 ELSE Len(pollSleeps)
    /\ \A k \in 1..(Len(statuses) - 1) : statuses[k] = "PROCESSING"
    /\ statuses = << "PROCESSING", "PROCESSING", "COMPLETED" >> =>
          /\ Len(pollSleeps) = 2
          /\ pc \in {"get_file_handle", "done", "failed"}
    /\ pc = "done" =>
          /\ status.state = "COMPLETED"
          /\ LastCall.op = "getFileHandle"
          /\ LastCall.id = status.fileHandleId
          /\ fileHandle.id = status.fileHandleId

C4_Witness ==
    /\ pc = "done"
    /\ statuses = << "PROCESSING", "PROCESSING", "COMPLETED" >>
    /\ Len(pollSleeps) = 2
    /\ fileHandle.id = "fh-7"

\* C5: when the completion daemon reports FAILED with errorMessage m, the
\* upload raises an error whose message is m and returns no file handle.
C5_FailedMessage ==
    status.state = "FAILED" =>
        /\ pc = "failed"
        /\ error.type = "Exception"
        /\ error.message = status.errorMessage
        /\ fileHandle = NoHandle

C5_Witness ==
    /\ pc = "failed"
    /\ status.state = "FAILED"
    /\ status.errorMessage = "disk full"
    /\ error.message = "disk full"

\* C6: once a FAILED completion status was received the upload issues no
\* further remote call and makes no further attempt or sleep.
C6_FailedTerminal ==
    [][status.state = "FAILED" =>
          UNCHANGED << calls, outcomes, retrySleeps, pollSleeps, statuses >>]_vars

C6_Witness ==
    /\ status.state = "FAILED"
    /\ Len(statuses) >= 2
    /\ LastCall.op = "completeUploadDaemonStatus"

\* C7: a call with a chunksize below 5 MiB ends in a ValueError with no
\* remote call made: no token request, no URL request, no PUT.
C7_MinChunksize ==
    (pc # "idle" /\ chunksize < 5 * MB) =>
        /\ pc = "failed"
        /\ error.type = "ValueError"
        /\ calls = << >>
        /\ outcomes = << >>

C7_Witness ==
    /\ pc = "failed"
    /\ chunksize = 1 * MB
    /\ filepath = "data.bin"
    /\ error.type = "ValueError"

\* C8: a call with a filepath that is None or names no existing file ends in
\* a ValueError with no remote call made.
C8_FileNotFound ==
    (pc # "idle" /\ (filepath = NoPath \/ fs[filepath] = Absent)) =>
        /\ pc = "failed"
        /\ error.type = "ValueError"
        /\ calls = << >>
        /\ outcomes = << >>

C8_Witness ==
    /\ pc = "failed"
    /\ filepath = "gone.bin"
    /\ chunksize = CHUNK_SIZE
    /\ error.message = "File not found"

\* C9: under the policy retries=3, wait=1, backoff=2 a call whose first two
\* attempts fail retryably and whose third succeeds is invoked exactly 3
\* times, sleeps 1 and then 2 between the attempts, and hands the successful
\* result to its caller.
C9_RetryableFailure(o) ==
    \/ o.exc = "" /\ o.status \in {502, 503}
    \/ o.exc \in {"Timeout", "timeout"}

C9_FailTwiceThenSucceed ==
    ( /\ Len(outcomes) >= 3
      /\ LastCall.op # "PUT"
      /\ C9_RetryableFailure(outcomes[1])
      /\ C9_RetryableFailure(outcomes[2])
      /\ outcomes[3].exc = "" /\ outcomes[3].status = 200 )
    =>  /\ Len(outcomes) = 3
        /\ retrySleeps = << 1, 2 >>
        /\ ~inCall
        /\ LastCall.result = "ok"
        /\ error.type \in {"", "Exception"}
        /\ LastCall.op = "createChunkedFileUploadToken" => token \in Tokens /\ pc # "token"

C9_Witness ==
    /\ Len(calls) >= 1
    /\ LastCall.op = "createChunkedFileUploadToken"
    /\ outcomes = << Resp(503, "", {}), Resp(0, "Timeout", {}), Resp(200, "", {}) >>
    /\ retrySleeps = << 1, 2 >>
    /\ token = "token-1"

\* C10: a failure the policy of the call does not retry (status outside
\* {502, 503}, no configured error text in the body, exception kind outside
\* the retry set) goes to the caller at once: no attempt and no sleep
\* follows it, so when it is the outcome of the first attempt the operation
\* was invoked exactly once and never slept.
C10_NotRetryable(op, o) ==
    /\ o.exc # "" \/ o.status \notin 200..299
    /\ o.status \notin {502, 503}
    /\ IF op = "PUT"
       THEN S3InternalError \notin o.body
       ELSE o.exc \notin {"Timeout", "timeout"}

C10_NonRetryablePropagates ==
    \A k \in 1..Len(outcomes) :
        C10_NotRetryable(LastCall.op, outcomes[k]) =>
            /\ k = Len(outcomes)
            /\ Len(retrySleeps) = k - 1
            /\ ~inCall
            /\ pc = "failed"
            /\ error = HttpErrorOf(outcomes[k])
            /\ LastCall.result = "failed"

C10_Witness ==
    /\ Len(calls) >= 1
    /\ LastCall.op = "PUT"
    /\ outcomes = << Resp(403, "", {"Forbidden"}) >>
    /\ retrySleeps = << >>
    /\ pc = "failed"

\* C11: with retries = R a call that keeps failing retryably is invoked at
\* most R+1 times (R = 3 for the REST calls, 4 for the chunk PUT); after the
\* attempt R+1 failed the wrapper stops and that last failure reaches the
\* caller.
C11_MaxAttempts(op) == IF op = "PUT" THEN 5 ELSE 4

C11_BoundedRetries ==
    Len(calls) >= 1 =>
        /\ Len(outcomes) <= C11_MaxAttempts(LastCall.op)
        /\ ( /\ Len(outcomes) = C11_MaxAttempts(LastCall.op)
             /\ outcomes[Len(outcomes)].status # 200 )
           =>  /\ ~inCall
               /\ pc = "failed"
               /\ LastCall.result = "failed"
               /\ error = HttpErrorOf(outcomes[Len(outcomes)])

C11_Witness ==
    /\ Len(calls) >= 1
    /\ LastCall.op = "createChunkedFileUploadToken"
    /\ outcomes = << Resp(503, "", {}), Resp(503, "", {}), Resp(503, "", {}), Resp(503, "", {}) >>
    /\ pc = "failed"
    /\ error.type = "HTTPError"

\* C12: the sleep before retry n (n from 0) is wait * backoff^n, with no
\* jitter: 1, 2, 4, 8 for the chunk PUT (4 retries) and 1, 2, 4 for the REST
\* calls (3 retries), in this order.
RECURSIVE C12_Pow(_, _)
C12_Pow(b, n) == IF n = 0 THEN 1 ELSE b * C12_Pow(b, n - 1)

C12_BackoffSequence ==
    Len(calls) >= 1 =>
        /\ \A n \in 1..Len(retrySleeps) : retrySleeps[n] = 1 * C12_Pow(2, n - 1)
        /\ Len(retrySleeps) <= IF LastCall.op = "PUT" THEN 4 ELSE 3
        /\ inCall => Len(retrySleeps) = Len(outcomes)
        /\ ~inCall => Len(retrySleeps) = Len(outcomes) - 1
        /\ (LastCall.op = "PUT" /\ Len(outcomes) = 5) => retrySleeps = << 1, 2, 4, 8 >>
        /\ (LastCall.op # "PUT" /\ Len(outcomes) = 4) => retrySleeps = << 1, 2, 4 >>

C12_Witness ==
    /\ Len(calls) >= 1
    /\ LastCall.op = "PUT"
    /\ retrySleeps = << 1, 2, 4, 8 >>
    /\ Len(outcomes) = 5

\* C14: _uploadToFileHandleService given a URL creates an External file
\* handle that references this URL, whatever synapseStore is, and never
\* enters the chunked upload: its only remote call is the external handle
\* creation.
C14_UrlAlwaysExternal ==
    (pc # "idle" /\ filename \in Urls) =>
        /\ pc \in {"add_url", "done", "failed"}
        /\ filepath = NoPath
        /\ Len(calls) <= 1
        /\ \A k \in 1..Len(calls) :
              /\ calls[k].op = "externalFileHandle"
              /\ calls[k].externalURL = filename
        /\ pc = "done" =>
              /\ Len(calls) = 1 /\ calls[1].result = "ok"
              /\ fileHandle.concreteType = "org.sagebionetworks.repo.model.file.ExternalFileHandle"
        /\ pc = "failed" => Len(calls) = 1 /\ calls[1].result = "failed"

C14_Witness ==
    /\ pc = "done"
    /\ filename \in Urls
    /\ synapseStore = "True"
    /\ fileHandle.id = "fh-7"

\* C15: _uploadToFileHandleService given a local path with synapseStore
\* False creates an External file handle for the file: URL of the path; its
\* only remote call is the external handle creation: no token request, no
\* chunk URL request, no PUT.
C15_FileUrlOf(path) ==
    IF path = "data.bin" THEN "file://data.bin" ELSE "file://gone.bin"

C15_LinkOnly ==
    (pc # "idle" /\ filename \in Paths /\ synapseStore = "False") =>
        /\ pc \in {"add_url", "done", "failed"}
        /\ filepath = NoPath
        /\ Len(calls) <= 1
        /\ \A k \in 1..Len(calls) :
              /\ calls[k].op = "externalFileHandle"
              /\ calls[k].externalURL = C15_FileUrlOf(filename)
              /\ calls[k].data = NoChunk
        /\ pc = "done" =>
              /\ Len(calls) = 1 /\ calls[1].result = "ok"
              /\ fileHandle.concreteType = "org.sagebionetworks.repo.model.file.ExternalFileHandle"
        /\ pc = "failed" => Len(calls) = 1 /\ calls[1].result = "failed"

C15_Witness ==
    /\ pc = "done"
    /\ filename = "data.bin"
    /\ synapseStore = "False"
    /\ Len(calls) = 1

\* C16: _uploadToFileHandleService given a local path with synapseStore True
\* or None runs _chunkedUploadFile on the path with the default chunk size
\* and returns the file handle it fetched; it creates no External handle.
C16_UploadByDefault ==
    (pc # "idle" /\ filename \in Paths /\ synapseStore \in {"True", "None"}) =>
        /\ pc # "add_url"
        /\ filepath = filename
        /\ chunksize = 5 * MB
        /\ \A k \in 1..Len(calls) : calls[k].op # "externalFileHandle"
        /\ Len(calls) >= 1 => calls[1].op = "createChunkedFileUploadToken"
        /\ pc = "done" =>
              /\ LastCall.op = "getFileHandle"
              /\ status.state = "COMPLETED"
              /\ fileHandle = ServerFileHandle(status.fileHandleId)
              /\ Len(CallsOf("PUT")) = NumChunksOf(fs[filename], 5 * MB)

C16_Witness ==
    /\ pc = "done"
    /\ filename = "data.bin"
    /\ synapseStore = "None"
    /\ Len(CallsOf("PUT")) >= 2


\* C13: every remote call runs under a retry policy; in particular a
\* download GET of _downloadFile that is answered 502 or 503 is tried again
\* rather than failing the download: a download never ends in an error
\* whose last response is a 502/503 that was the only response from its URL.
C13_DownloadGetsRetried ==
    ( /\ entityType = "file"
      /\ cur.result = "error"
      /\ Len(gets) >= 1
      /\ gets[Len(gets)].status \in {502, 503} )
    => \E k \in 1..(Len(gets) - 1) : gets[k].url = gets[Len(gets)].url

\* C17: of two successful resolves in succession, with the remote file and
\* the cache left alone in between, the second makes no network request and
\* returns the cached path the first returned.
C17_SecondResolveOffline ==
    \A k \in 2..Len(resolves) :
        (resolves[k - 1].result = "path" /\ resolves[k].result = "path")
        => /\ resolves[k].net = 0
           /\ resolves[k].path = resolves[k - 1].path

\* C18: a resolve that finds the cached file takes the digest from the
\* sidecar, without hashing the file, exactly when the sidecar exists and its
\* mtime is strictly greater than the file's; in every other case (no
\* sidecar, older, equal mtime) it hashes the file, whatever the remote holds.
C18_SidecarTrustedIffNewer ==
    ( /\ entityType = "locationable"
      /\ cur.result # "none"
      /\ cur.fileAt.exists )
    => /\ cur.trusted <=> ( /\ cur.sidecarAt.exists
                            /\ cur.sidecarAt.mtime > cur.fileAt.mtime )
       /\ cur.trusted => ( /\ ~cur.rehashed
                           /\ md5str = cur.sidecarAt.text[1] )
       /\ (~cur.trusted /\ cpc # "rehash") => cur.rehashed

\* Two resolves of an unchanged remote file: the first finds a sidecar as old
\* as the file and hashes the file, the second trusts the sidecar written.
C18_Witness ==
    /\ entityType = "locationable"
    /\ Len(resolves) = 2
    /\ resolves[1].fileAt.exists
    /\ resolves[1].sidecarAt.exists
    /\ resolves[1].sidecarAt.mtime = resolves[1].fileAt.mtime
    /\ resolves[1].rehashed
    /\ resolves[1].net = 0
    /\ entityMd5 = Md5(remote)
    /\ resolves[2].trusted
    /\ ~resolves[2].rehashed

\* C19: once a resolve that found the cached file with a stale sidecar
\* (missing, or not newer than the file) is past its hashing step, the
\* sidecar exists and its whole text is the digest of the file as that
\* resolve found it, which is also the digest the resolve goes on with.
C19_StaleSidecarRewritten ==
    ( /\ entityType = "locationable"
      /\ cur.result # "none"
      /\ cur.fileAt.exists
      /\ ~(cur.sidecarAt.exists /\ cur.sidecarAt.mtime > cur.fileAt.mtime)
      /\ cpc # "rehash" )
    => /\ sidecar.exists
       /\ sidecar.text = << Md5(cur.fileAt.content) >>
       /\ md5str = Md5(cur.fileAt.content)
       /\ sidecar.mtime >= cur.fileAt.mtime

\* A stale sidecar that held another digest has been overwritten.
C19_Witness ==
    /\ entityType = "locationable"
    /\ cur.rehashed
    /\ cur.sidecarAt.exists
    /\ cur.sidecarAt.text # << Md5(cur.fileAt.content) >>
    /\ sidecar.text = << md5str >>

\* C20: a resolve that found the cached file and a local digest other than
\* the entity's md5 has downloaded the location into the cached file by the
\* time it sets and returns the path.
C20_MismatchRefetched ==
    ( /\ entityType = "locationable"
      /\ cpc = "finish" \/ cur.result = "path"
      /\ cur.fileAt.exists
      /\ md5str # entityMd5 )
    => /\ cur.net >= 1
       /\ gets # << >>
       /\ gets[Len(gets)].status = 200
       /\ cfile.content = remote

\* A cached file with the wrong content was replaced and its path returned.
C20_Witness ==
    /\ entityType = "locationable"
    /\ cur.result = "path"
    /\ cur.fileAt.exists
    /\ cur.fileAt.content # remote
    /\ entityMd5 = Md5(remote)
    /\ md5str = Md5(cur.fileAt.content)
    /\ cur.net = 1
    /\ cfile.content = remote


\* C21: when a resolve that downloaded content returns, the sidecar of the
\* destination file exists, is newer than the file and holds the digest of
\* the content just written.  Stated for the resolves of _downloadFile that
\* were redirected to the location and wrote its body to the cached file.
C21_SidecarAfterDownload ==
    ( /\ entityType = "file"
      /\ cur.result = "path"
      /\ dlurl = LocationUrl )
    => /\ sidecar.exists
       /\ sidecar.mtime > cfile.mtime
       /\ sidecar.text = << Md5(cfile.content) >>

\* C22: once the first GET of _downloadFile was answered 301, 302, 303, 307
\* or 308, url is the Location; a file: Location ends the call at once with
\* the local path, one GET made and the cache directory as it was; any
\* other Location gets exactly one further GET, and a call that returns has
\* written that GET's body to the destination file and nothing else.
C22_RedirectFollowed ==
    ( /\ entityType = "file"
      /\ Len(gets) >= 1
      /\ gets[1].status \in {301, 302, 303, 307, 308} )
    => IF dlurl = "file:///data/local.bin"
       THEN /\ Len(gets) = 1
            /\ cur.result = "path"
            /\ cur.path = "/data/local.bin"
            /\ cacheDir = cur.dirAt
       ELSE /\ dlurl = LocationUrl
            /\ Len(gets) <= 2
            /\ Len(gets) = 2 => gets[2].url = LocationUrl
            /\ cpc # "redirect_get" => Len(gets) = 2
            /\ cur.result = "path" =>
                  /\ cur.path = CachePath
                  /\ cacheDir["data.bin"].exists
                  /\ cacheDir["data.bin"].content = remote
                  /\ cacheDir["file"] = cur.dirAt["file"]

\* One download redirected to a local file, the next one (by 307) to the
\* location, whose body replaced what the cache held.
C22_Witness ==
    /\ entityType = "file"
    /\ Len(resolves) = 2
    /\ resolves[1].path = "/data/local.bin"
    /\ resolves[1].net = 1
    /\ resolves[2].path = CachePath
    /\ resolves[2].net = 2
    /\ gets[1].status = 307
    /\ cur.dirAt["data.bin"].exists
    /\ cur.dirAt["data.bin"].content # remote
    /\ cacheDir["data.bin"].content = remote

\* C23: a download whose last response has a status of 400 or more has
\* ended in an HTTPError, with the cache directory as the call found it.
C23_HttpErrorLeavesFile ==
    ( /\ entityType = "file"
      /\ Len(gets) >= 1
      /\ gets[Len(gets)].exc = ""
      /\ gets[Len(gets)].status >= 400 )
    => /\ cur.result = "error"
       /\ cur.error = "HTTPError"
       /\ cacheDir = cur.dirAt

\* The redirect target answered 404 while the destination file existed.
C23_Witness ==
    /\ entityType = "file"
    /\ Len(gets) = 2
    /\ gets[2].status = 404
    /\ cur.result = "error"
    /\ cur.error = "HTTPError"
    /\ cur.dirAt["data.bin"].exists
    /\ cacheDir["data.bin"] = cur.dirAt["data.bin"]


\* C24: the unpack step rejects an archive entry that leads out of the
\* "_unpacked" directory: a resolve that returns has unpacked no archive
\* with such an entry, and every file it wrote while unpacking lies in
\* that directory.
C24_UnpackConfined ==
    ( /\ entityType = "locationable"
      /\ contentType = "application/zip"
      /\ cur.result = "path" )
    => /\ "../evil.txt" \notin cur.files
       /\ cur.unpacked \subseteq
             { "cache/syn1/data.bin_unpacked/a.txt",
               "cache/syn1/data.bin_unpacked/evil.txt" }


\* C25: calls at work on the same destination never expose a partly
\* written file: while a call has returned the file's path the file holds
\* every block of the body, and what a resolve was given to hash was the
\* whole file.
C25_NoPartialFileSeen ==
    \A p \in Procs :
        /\ writers[p].pc = "returned" => dest.blocks = Whole
        /\ hashed[p].done => hashed[p].blocks = Whole


\* C26: the chunks PUT for a file of S bytes and chunk size C are
\* consecutive ranges of the file starting at byte 0, each of 1..C bytes and
\* all but the last of exactly C bytes; once the loop has ended there are
\* ceil(S/C) of them and they end at byte S, so that in order they make up
\* the file.
C26_ChunkSplit ==
    LET puts == CallsOf("PUT") IN
    /\ \A k \in 1..Len(puts) :
          /\ puts[k].data.off = (k - 1) * chunksize
          /\ puts[k].data.len \in 1..chunksize
          /\ k < Len(puts) => puts[k].data.len = chunksize
          /\ puts[k].data.off + puts[k].data.len <= fs[filepath]
    /\ Len(CallsOf("startCompleteUploadDaemon")) >= 1 =>
          /\ Len(puts) = (fs[filepath] + chunksize - 1) \div chunksize
          /\ Len(puts) >= 1 =>
                puts[Len(puts)].data.off + puts[Len(puts)].data.len
                   = fs[filepath]

\* A file of two chunk sizes and one byte was PUT in three chunks.
C26_Witness ==
    /\ pc = "done"
    /\ fs["data.bin"] = 2 * CHUNK_SIZE + 1
    /\ chunksize = CHUNK_SIZE
    /\ Len(CallsOf("PUT")) = 3
    /\ CallsOf("PUT")[3].data = [off |-> 2 * CHUNK_SIZE, len |-> 1]


\* C27: a call of setAnnotations that omits the annotations argument starts
\* from an empty container: what it sends are its own keyword annotations
\* and nothing that an earlier call was given.
C27_FreshDefault ==
    \A k \in 1..Len(sent) :
        sent[k].omitted => sent[k].annotations = sent[k].kwargs


\* The /session requests of the login under way.
C28_Requests == SelectSeq(lcalls, LAMBDA c : c.op # "version_check")

\* C28: login prefers (1) a supplied email and password, (2) a supplied
\* session token, (3) the stored session token, (4) the stored username and
\* password.  With email and password supplied no token is validated and
\* they are what is posted; a supplied token that is rejected ends the login
\* with no further request; a stored token that is rejected is followed by
\* the post of the stored username and password; with nothing usable login
\* fails with 'no credentials provided'.
C28_CredentialOrder ==
    LET req == C28_Requests
        a == loginArgs
        stored == a.config.username # None /\ a.config.password # None
        ended == lpc \in {"done", "failed"}
        posts(e, p) ==
            \A k \in 1..Len(req) : /\ req[k].op = "POST /session"
                                   /\ req[k].email = e
                                   /\ req[k].password = p
    IN
    lpc # "idle" =>
      IF a.email # None /\ a.password # None
      THEN /\ posts(a.email, a.password)
           /\ Len(req) <= 1
           /\ ended => Len(req) = 1
      ELSE IF a.sessionToken # None
      THEN /\ \A k \in 1..Len(req) : /\ req[k].op = "PUT /session"
                                     /\ req[k].token = a.sessionToken
           /\ Len(req) <= 1
           /\ ended <=> Len(req) = 1
           /\ (ended /\ req[1].out = "ok") => lpc = "done"
           /\ (ended /\ req[1].out # "ok") => lpc = "failed"
           /\ (ended /\ req[1].out = "404") =>
                 lerror = "LOGIN FAILED: supplied session token is invalid"
      ELSE IF a.config.sessiontoken # None
      THEN /\ Len(req) >= 1 => /\ req[1].op = "PUT /session"
                               /\ req[1].token = a.config.sessiontoken
           /\ (Len(req) >= 1 /\ req[1].out = "ok") =>
                 (lpc = "done" /\ Len(req) = 1)
           /\ (Len(req) >= 1 /\ req[1].out \in {"404", "400", "500"}) =>
                 IF stored
                 THEN \/ lpc = "post" /\ Len(req) = 1
                      \/ /\ ended
                         /\ Len(req) = 2
                         /\ req[2].op = "POST /session"
                         /\ req[2].email = a.config.username
                         /\ req[2].password = a.config.password
                 ELSE /\ lpc = "failed"
                      /\ Len(req) = 1
                      /\ lerror = "LOGIN FAILED: no credentials provided"
      ELSE IF stored
      THEN /\ posts(a.config.username, a.config.password)
           /\ Len(req) <= 1
           /\ ended => Len(req) = 1
      ELSE /\ lpc = "failed"
           /\ Len(req) = 0
           /\ lerror = "LOGIN FAILED: no credentials provided"

\* The stored token was rejected and the stored username and password
\* logged the client in.
C28_Witness ==
    /\ lpc = "done"
    /\ loginArgs.sessionToken = None
    /\ Len(C28_Requests) = 2
    /\ C28_Requests[1].op = "PUT /session"
    /\ C28_Requests[1].token = "cfg-token"
    /\ C28_Requests[1].out = "404"
    /\ C28_Requests[2].op = "POST /session"
    /\ C28_Requests[2].email = "cfg-user"
    /\ C28_Requests[2].out = "ok"
    /\ client.sessionToken = "new-token"


\* What C29 says of a get, with remoteOps the remote calls a get without
\* download may make.
C29_Statement(remoteOps) ==
    LET downloads == { k \in 1..Len(gcalls) :
                          gcalls[k].op \in {"_downloadFileEntity",
                                            "_downloadLocations"} }
    IN
    gpc # "idle" =>
      /\ ~getArgs.downloadFile =>
            /\ \A k \in 1..Len(gcalls) : gcalls[k].op \in remoteOps
            /\ gpc # "download_file" /\ gpc # "download_locations"
      /\ Cardinality({ k \in 1..Len(gcalls) : gcalls[k].op = "bundle GET" }) <= 1
      /\ (bundle.type = "File" /\ bundle.handle = "external-file") =>
            /\ gpc = "done"
            /\ gentity.path = "/data/local.bin"
            /\ downloads = {}
      /\ ( /\ getArgs.downloadFile
           /\ bundle.type = "File"
           /\ bundle.handle \in {"stored", "external-http"} ) =>
            \/ gpc = "download_file"
            \/ \E k \in downloads : gcalls[k].op = "_downloadFileEntity"

\* C29 as stated: get with downloadFile=False (getEntity) invokes neither
\* _downloadFileEntity nor _downloadLocations and its only remote call is
\* the bundle GET; with downloadFile=True a File with a stored or http
\* external handle is downloaded; a file: external URL becomes the local
\* path without download either way.
C29_OnlyBundleGet == C29_Statement({"bundle GET"})

\* C29, amended: the same, but for an entity given by name and without id
\* the bundle GET is preceded by the query that looks up its id.
C29_NoDownloadUnlessAsked ==
    /\ C29_Statement({"query", "bundle GET"})
    /\ \A k \in 1..Len(gcalls) :
          gcalls[k].op = "query" => (k = 1 /\ getArgs.entity = "named")

\* getEntity of an entity given by name: the query, the bundle GET of a File
\* stored in Synapse, and no download.
C29_Witness ==
    /\ gpc = "done"
    /\ ~getArgs.downloadFile
    /\ getArgs.entity = "named"
    /\ bundle = [type |-> "File", handle |-> "stored"]
    /\ Len(gcalls) = 2
    /\ gcalls[1].op = "query"
    /\ gcalls[2].op = "bundle GET"
    /\ gentity.path = ""


\* C30: the generator yields the submissions 1, 2, ... in the server's
\* order, each once; it requests the pages at offsets 0, 20, 40, ... and
\* the page at offset 20 * k only once 20 * k submissions were yielded; it
\* raises only when a request failed or the status is invalid, and in the
\* latter case before any request; when it returns, all of the evaluation's
\* submissions have been yielded.
C30_AllSubmissionsOnce ==
    /\ \A k \in 1..Len(yielded) : yielded[k] = k
    /\ Len(yielded) <= total
    /\ \A k \in 1..Len(uris) : /\ uris[k].offset = 20 * (k - 1)
                               /\ uris[k].limit = 20
                               /\ uris[k].status = subStatus
    /\ Len(uris) <= (Len(yielded) \div 20) + 1
    /\ Len(yielded) <= 20 * Len(uris)
    /\ spc = "returned" => Len(yielded) = total
    /\ spc = "raised" =>
          \/ subStatus \notin {None, "OPEN", "CLOSED", "SCORED", "INVALID"}
          \/ Len(uris) >= 1 /\ ~uris[Len(uris)].ok
    /\ subStatus \notin {None, "OPEN", "CLOSED", "SCORED", "INVALID"} =>
          /\ uris = << >>
          /\ yielded = << >>
          /\ spc # "returned"

\* An evaluation of 41 submissions was read to its end in three pages.
C30_Witness ==
    /\ spc = "returned"
    /\ total = 41
    /\ Len(yielded) = 41
    /\ Len(uris) = 3
    /\ uris[3].offset = 40
    /\ subStatus = "OPEN"


\* C31: a call past its precondition checks requests one upload token, no
\* call requests more than one; every signed-URL request, every PUT to a
\* signed URL and the startCompleteUploadDaemon request carry the token that
\* was granted; no request issued after startCompleteUploadDaemon (the polls,
\* the fetch of the file handle) carries a token.
C31_OneTokenPerUpload ==
    LET tokenCalls == { k \in 1..Len(calls) :
                           calls[k].op = "createChunkedFileUploadToken" }
        daemonCalls == { k \in 1..Len(calls) :
                           calls[k].op = "startCompleteUploadDaemon" }
    IN  /\ Cardinality(tokenCalls) = (IF calls = << >> THEN 0 ELSE 1)
        /\ pc \in {"chunk_url", "chunk_put", "start_daemon", "poll_sleep",
                   "poll_status", "get_file_handle", "done"} => calls # << >>
        /\ \A k \in 1..Len(calls) :
              /\ calls[k].op \in {"createChunkedFileUploadChunkURL", "PUT",
                                  "startCompleteUploadDaemon"}
                    => calls[k].token = token /\ token \in {"token-1", "token-2"}
              /\ (\E d \in daemonCalls : d < k) => calls[k].token = ""
        /\ Cardinality(daemonCalls) <= 1

\* An upload of two chunks under the second token has fetched its handle.
C31_Witness ==
    /\ pc = "done"
    /\ token = "token-2"
    /\ i = 2
    /\ Len(calls) >= 1
    /\ LastCall.op = "getFileHandle"
    /\ \E k \in 1..Len(calls) : calls[k].op = "completeUploadDaemonStatus"


\* C32: once the daemon has answered with a state that is neither
\* PROCESSING nor COMPLETED, _getFileHandle is neither called nor about to
\* be called and no handle is returned.
C32_HandleOnlyWhenCompleted ==
    (statuses # << >> /\ status.state \notin {"PROCESSING", "COMPLETED"}) =>
        /\ pc \notin {"get_file_handle", "done"}
        /\ CallsOf("getFileHandle") = << >>
        /\ fileHandle = NoHandle


\* C33: a call of _chunkedUploadFile whose remote calls all return and whose
\* daemon stops answering PROCESSING ends, with a handle or with an error;
\* as long as the last status is PROCESSING the call sleeps or polls, and
\* only a poll that raised takes it out of the loop.
C33_UploadEnds ==
    /\ [](statuses # << >> /\ status.state = "PROCESSING" =>
             \/ pc \in {"poll_sleep", "poll_status"}
             \/ /\ pc = "failed"
                /\ Len(calls) >= 1
                /\ LastCall.op = "completeUploadDaemonStatus"
                /\ LastCall.result = "failed")
    /\ [](pc \in {"poll_sleep", "poll_status"} => status.state = "PROCESSING")
    /\ (pc # "idle") ~> (pc \in {"done", "failed"})

\* An upload returned its handle after it had polled twice or more.
C33_Witness ==
    /\ pc = "done"
    /\ Len(pollSleeps) >= 2
    /\ fileHandle # NoHandle
    /\ status.state = "COMPLETED"


\* C34: the run with verbose and progress issues the remote calls and sleeps
\* of the quiet run on the same responses, stands where it stands, and ends
\* with its result or error.
C34_SameControlFlow ==
    /\ runB.pc = runA.pc
    /\ runB.calls = runA.calls
    /\ runB.sleeps = runA.sleeps
    /\ runB.polls = runA.polls
    /\ runB.result = runA.result
    /\ runB.error = runA.error
    /\ runB.inCall = runA.inCall

\* A run that traced to both streams and retried a PUT returned the handle
\* the quiet run returned.
C34_Witness ==
    /\ runB.pc = "done"
    /\ runB.verbose = "True"
    /\ runB.progress
    /\ {"token=", "Chunk", "url=", "status=", "retry"} \subseteq runB.stderr
    /\ {".", ",", "!", "Upload completed"} \subseteq runB.stdout
    /\ runA.stdout = {}
    /\ Len(runB.polls) >= 1
    /\ runB.result # NoHandle


\* C35: when a call of _chunkedUploadFile has ended, by a returned handle or
\* by any exception, self.debug has the value it had before the call.
C35_DebugRestored ==
    \A r \in {runA, runB} :
        r.pc \in {"done", "failed"} => r.debug = r.before

\* A call with verbose='debug' on a client whose debug flag was off had
\* switched the flag on and ended with an error of the service.
C35_Witness ==
    /\ runB.pc = "failed"
    /\ runB.verbose = "debug"
    /\ ~runB.before
    /\ runB.debugSeen
    /\ ~runB.debug
    /\ runB.error.type = "HTTPError"
    /\ "debug_response" \in runB.stdout


\* C36: a call that trusted the sidecar read from it the digest of the
\* content the file had at that moment, and a sidecar newer than the file
\* holds the digest of the file's content.
C36_TrustedSidecarIsCurrent ==
    /\ \A p \in Procs : racers[p].trusted => racers[p].md5str = racers[p].seen
    /\ (cfile.exists /\ sidecar.exists /\ sidecar.mtime > cfile.mtime) =>
          ReadSidecar(sidecar.text) = Md5(cfile.content)


\* C39: when a login that posted an email and a password has returned,
\* headers['request_profile'] has the value it had when login was called.
C39_ProfilingRestored ==
    (/\ lpc = "done"
     /\ Len(lcalls) >= 1
     /\ lcalls[Len(lcalls)].op = "POST /session")
        => client.request_profile = loginArgs.request_profile


\* C37: in every state of a sequence of login and logout calls the headers
\* hold a sessionToken exactly if self.sessionToken is set to a value other
\* than None, and then the two are equal.
C37_SessionConsistent ==
    /\ client.headerToken # None <=> client.sessionToken \notin {None, "<deleted>"}
    /\ client.headerToken # None => client.headerToken = client.sessionToken

\* A client that had logged in with a token, logged out and failed to log in
\* again carries no session.
C37_Witness ==
    /\ session.n = 3
    /\ session.op = "login"
    /\ lpc = "failed"
    /\ client.sessionToken = "<deleted>"
    /\ client.headerToken = None

\* C38: a logout whose DELETE /session failed has left self.sessionToken, the
\* sessionToken header and the stored session token as they were; a logout
\* with local=True has made no remote call and has removed all three.
C38_LogoutEffects ==
    (session.op = "logout" /\ lpc \in {"done", "failed"}) =>
        /\ (/\ ~session.local
            /\ Len(lcalls) >= 1
            /\ lcalls[Len(lcalls)].out # "ok")
              => /\ SessionOf(client) = session.client
                 /\ config.sessiontoken = session.stored
        /\ session.local
              => /\ lcalls = << >>
                 /\ client.sessionToken = "<deleted>"
                 /\ client.headerToken = None
                 /\ config.sessiontoken = None


\* The calls of the store under way that create a file handle, and those
\* that create or update the entity.
C40_Uploads ==
    { k \in 1..Len(stcalls) :
         stcalls[k].op \in {"_chunkedUploadFile", "_addURLtoFileHandleService"} }
C40_EntityWrites ==
    { k \in 1..Len(stcalls) :
         stcalls[k].op \in {"_createEntity", "_updateEntity"} }

\* C40: a store of a File entity with a path makes one call that creates a
\* file handle, as its first call, whether or not the entity came with a
\* dataFileHandleId; once that call has returned, dataFileHandleId is the
\* handle it returned, a handle the entity did not have before, and every
\* creation or update of the entity comes later and carries that handle.
C40_UploadOnEveryStore ==
    (stpc # "idle" /\ storeArgs.path # "") =>
        /\ stpc = "upload" <=> stcalls = << >>
        /\ stcalls # << >> => C40_Uploads = {1}
        /\ stpc \notin {"upload", "failed"} =>
              /\ properties.dataFileHandleId = stcalls[1].dataFileHandleId
              /\ properties.dataFileHandleId # storeArgs.dataFileHandleId
              /\ properties.dataFileHandleId # NoHandleId
        /\ \A k \in C40_EntityWrites :
              /\ k > 1
              /\ stcalls[1].out = "ok"
              /\ stcalls[k].dataFileHandleId = stcalls[1].dataFileHandleId

\* The entity a store had returned was stored again: the file was uploaded
\* anew and the entity updated with the new handle.
C40_Witness ==
    /\ stores.n = 2
    /\ stpc = "done"
    /\ storeArgs.path = "data.bin"
    /\ storeArgs.dataFileHandleId = 2
    /\ properties.dataFileHandleId = 3
    /\ Len(stcalls) >= 2
    /\ stcalls[1].op = "_chunkedUploadFile"
    /\ stcalls[2].op = "_updateEntity"

====
